---- MODULE Spec2Model ----
(***************************************************************************)
(* Model of the akash-ms-mcp monitoring adapter:                            *)
(*   - the batched, rate-limited metric prober (testMetricsInBatches and    *)
(*     queryAgentMetric),                                                   *)
(*   - the category filter (filterContextsByCategory),                      *)
(*   - the alarm aggregator (getNetDataAlarms).                             *)
(* Each component has its own specification over the shared variables; the  *)
(* variables of the other components keep their initial value.              *)
(***************************************************************************)
EXTENDS Integers, Sequences, FiniteSets, TLC

VARIABLES
    \* ---- testMetricsInBatches: one call ----
    contexts,       \* the identifier list passed in
    batchSize,      \* the batchSize argument
    i,              \* the loop index of the for loop (0-based, as in the code)
    batch,          \* contexts.slice(i, i + batchSize) of the current iteration
    batchPos,       \* positions (1-based) in contexts of the elements of batch
    inflight,       \* positions whose agent request is issued and not settled
    outcome,        \* position -> what queryAgentMetric returned (or NoOutcome)
    reply,          \* position -> what the agent answered (or NoReply)
    issued,         \* position -> number of agent requests issued for it
    verdict,        \* position -> list its result was pushed to (or "none")
    results,        \* the results object being built
    pauses,         \* number of rate-limit pauses started
    batches,        \* number of batches started
    iter,           \* number of loop iterations started
    pc,             \* position of the call
    \* ---- filterContextsByCategory: one call ----
    fcContexts,     \* the contexts argument
    fcCategory,     \* the category argument
    fcResult,       \* the outcome of the call (or FcPending)
    \* ---- getNetDataAlarms: one call ----
    apiToken,       \* config.netdata.apiToken is set
    alarmsFetch,    \* the request of the alarm counters
    roomsFetch,     \* the request of the room list
    roomAlarms,     \* alarmsData.results || []
    roomsWithAlarms,\* the retained entries
    roomQueue,      \* rooms with criticals the drill-down has still to visit
    curRoom,        \* the room the drill-down is visiting
    nodeQueue,      \* nodes with criticals of curRoom whose reply is not yet
                    \* worked on: the first is the one asked
    criticalAlerts, \* the critical alarms collected so far
    skipped,        \* rooms and nodes the drill-down skipped
    drillLog,       \* the requests of the drill-down and their outcomes
    cloudCalls,     \* number of HTTP requests sent to the cloud API
    agentCalls,     \* number of HTTP requests sent to node agents
    alarmResult,    \* what getNetDataAlarms returned (or AlarmPending)
    apc,            \* position of the call: the await it stands at
    \* ---- handleToolCall: one tool call ----
    toolName,       \* the name argument
    toolArgs,       \* the args argument
    toolToken,      \* config.netdata.apiToken is set
    handlerRun,     \* the handler functions entered, in order
    toolRequests,   \* the HTTP requests the call has sent, by their target
    toolStage,      \* what the handler awaits
    toolResult,     \* the outcome of the call (or ToolPending)
    tpc,            \* position of the call
    serverResult,   \* the outcome of the call-tool request (or ToolPending)
    \* ---- getAkashAllIssuesReport: one call ----
    repAlarms,      \* the promise of getNetDataAlarms()
    repFetch,       \* endpoint -> the promise of its makeAkashRequest
    repResult,      \* the outcome of the call (or ToolPending)
    rpc,            \* position of the call
    \* ---- getActiveMetricsSummary: one call, from the parsed contexts ----
    allContexts,    \* the contexts parsed from the text of getRoomContexts
    sampleArg,      \* the sample_size argument
    sumIdx,         \* index of the category the loop is at
    categoryResults,\* the entries written so far, in the order of insertion
    totalActive,    \* sum of the active counts
    totalTested,    \* sum of the tested counts
    sumProbes,      \* the samples handed to testMetricsInBatches
    sumRequests,    \* number of requests sent to the agent
    sumStage,       \* what the call awaits: the probes of a batch or a timer
    sumResult,      \* the outcome of the call (or ToolPending)
    spc,            \* position of the call
    \* ---- getAllWikiPages: one call ----
    ghToken,        \* process.env.GITHUB_TOKEN is set
    wikiBranch,     \* the branch whose tree is asked for
    wikiLog,        \* the branches tried and what became of their requests
    wikiNetCalls,   \* number of HTTP requests sent to GitHub
    wikiResult,     \* the outcome of the call (or WikiPending)
    wpc             \* position of the call

probeVars  == <<contexts, batchSize, i, batch, batchPos, inflight, outcome, reply,
                issued, verdict, results, pauses, batches, iter, pc>>
filterVars == <<fcContexts, fcCategory, fcResult>>
alarmVars  == <<apiToken, alarmsFetch, roomsFetch, roomAlarms, roomsWithAlarms,
                roomQueue, curRoom, nodeQueue, criticalAlerts, skipped, drillLog,
                cloudCalls, agentCalls, alarmResult, apc>>
toolVars   == <<toolName, toolArgs, toolToken, handlerRun, toolRequests, toolStage,
                toolResult, tpc, serverResult>>
reportVars == <<repAlarms, repFetch, repResult, rpc>>
summaryVars == <<allContexts, sampleArg, sumIdx, categoryResults, totalActive,
                 totalTested, sumProbes, sumRequests, sumStage, sumResult, spc>>
wikiVars == <<ghToken, wikiBranch, wikiLog, wikiNetCalls, wikiResult, wpc>>
vars == <<probeVars, filterVars, alarmVars, toolVars, reportVars, summaryVars,
          wikiVars>>

----------------------------------------------------------------------------
(* Bounds of the model *)

\* longest identifier list passed to testMetricsInBatches
MaxLen == 3
\* largest batchSize argument
MaxBatch == 3
\* most negative batchSize argument is -MinBatch
MinBatch == 1
\* loop iterations explored of a call whose loop does not end by itself
MaxIter == 5

----------------------------------------------------------------------------
(* JavaScript values *)

\* A value of a field the code tests for truth carries its type, so that the
\* string "null" is not null and the string "false" is not false: a string
\* with its text, null, undefined, the booleans, a plain object with what the
\* model keeps of it, an array with its entries and a built-in function with
\* its name.
Str(s) == [type |-> "string", value |-> s]
Obj(x) == [type |-> "object", value |-> x]
Arr(list) == [type |-> "array", value |-> list]
Fn(name) == [type |-> "function", value |-> name]
Null == [type |-> "null", value |-> ""]
Undefined == [type |-> "undefined", value |-> ""]
JsTrue == [type |-> "boolean", value |-> "true"]
JsFalse == [type |-> "boolean", value |-> "false"]
\* a number, by its text
Num(text) == [type |-> "number", value |-> text]

\* ToBoolean: null, undefined, false, the empty string, 0 and NaN are falsy,
\* every other string or number, true and every object are truthy
Truthy(v) ==
    CASE v.type = "string" -> v.value # ""
      [] v.type = "boolean" -> v.value = "true"
      [] v.type = "number" -> v.value \notin {"0", "-0", "NaN"}
      [] v.type \in {"null", "undefined"} -> FALSE
      [] OTHER -> TRUE

\* the text a template literal puts for the value: `${v}`. An array gives the
\* texts of its entries joined by commas, a null or undefined entry the empty
\* text (Array.prototype.join); a built-in function gives its source; a plain
\* object gives "[object Object]".
RECURSIVE JsString(_)
RECURSIVE ArrayToString(_)
ArrayToString(list) ==
    IF list = <<>> THEN ""
    ELSE LET last == list[Len(list)]
             text == IF last.type \in {"null", "undefined"} THEN ""
                     ELSE JsString(last)
         IN  IF Len(list) = 1 THEN text
             ELSE ArrayToString(SubSeq(list, 1, Len(list) - 1)) \o "," \o text

JsString(v) ==
    CASE v.type \in {"string", "boolean", "number"} -> v.value
      [] v.type = "null" -> "null"
      [] v.type = "undefined" -> "undefined"
      [] v.type = "array" -> ArrayToString(v.value)
      [] v.type = "function" -> "function " \o v.value \o "() { [native code] }"
      [] OTHER -> "[object Object]"

\* value || fallback
OrElse(v, fallback) == IF Truthy(v) THEN v ELSE fallback

Min(a, b) == IF a < b THEN a ELSE b
Max(a, b) == IF a > b THEN a ELSE b

\* Division and multiplication of the code are those of IEEE 754 doubles.
\* The rounded value differs from the rounding of the exact quotient only
\* where the exact quotient lies half way between two results and the
\* double lies below it; the tables hold these quotients, in lowest terms,
\* between 0 and 1.
RECURSIVE Gcd(_, _)
Gcd(a, b) == IF b = 0 THEN a ELSE Gcd(b, a % b)
\* quotients p / q for which (p / q) * 100 is a double below k + 0.5
PercentBelowHalf == {<<23, 40>>, <<29, 200>>, <<57, 200>>, <<113, 200>>}
\* numerators p for which (p / q * 100) is a double below a number of the
\* form k.k5, by the denominator q
TenthsBelowHalf(q) ==
    CASE q = 80 -> {23, 41, 51}
      [] q = 400 -> {29, 57, 113, 201, 203, 207, 251, 253}
      [] q = 2000 ->
           {3, 9, 11, 19, 23, 37, 39, 43, 51, 53, 59, 61, 63, 71, 73, 81, 87,
            91, 103, 107, 111, 119, 121, 127, 141, 143, 147, 149, 151, 153,
            157, 167, 173, 177, 179, 181, 187, 189, 197, 207, 209, 211, 217,
            219, 227, 237, 239, 241, 247, 249, 257, 283, 287, 289, 291, 293,
            297, 299, 301, 307, 309, 317, 329, 347, 349, 351, 353, 357, 359,
            363, 369, 373, 379, 383, 389, 407, 409, 411, 413, 417, 419, 423,
            427, 429, 433, 439, 443, 449, 459, 469, 471, 473, 477, 479, 483,
            487, 489, 493, 499, 503, 509, 519, 563, 567, 569, 571, 573, 577,
            579, 581, 583, 587, 589, 591, 593, 597, 599, 601, 603, 607, 609,
            613, 619, 623, 629, 633, 639, 641, 643, 653, 663, 689, 691, 693,
            697, 699, 701, 703, 709, 711, 713, 719, 721, 723, 729, 731, 733,
            741, 743, 751, 753, 761, 763, 773, 783, 793, 813, 817, 819, 821,
            823, 827, 829, 831, 833, 839, 841, 843, 849, 851, 853, 861, 863,
            871, 873, 881, 883, 891, 893, 903, 913, 939, 941, 943, 947, 949,
            951, 953, 959, 961, 963, 969, 971, 973, 979, 981, 983, 991, 993,
            1001, 1003, 1007, 1009, 1011, 1013, 1017, 1019, 1021, 1023, 1027,
            1029, 1031, 1033, 1037, 1039, 1041, 1043, 1047, 1049, 1051, 1053,
            1057, 1059, 1061, 1063, 1067, 1069, 1071, 1073, 1077, 1079, 1081,
            1083, 1089, 1091, 1093, 1099, 1101, 1103, 1111, 1113, 1121, 1123,
            1131, 1133, 1141, 1143, 1153, 1163, 1251, 1253, 1257, 1259, 1261,
            1263, 1267, 1269, 1271, 1273, 1277, 1279, 1281, 1283, 1287, 1291,
            1293, 1297, 1301, 1303, 1307, 1311, 1313, 1317, 1321, 1323, 1327,
            1331, 1333, 1337, 1341, 1347, 1351, 1357, 1361, 1367, 1371, 1377,
            1381, 1387, 1391, 1397, 1401, 1407, 1411, 1421, 1431, 1441, 1451,
            1461, 1501, 1503, 1507, 1509, 1511, 1513, 1517, 1519, 1521, 1523,
            1527, 1529, 1531, 1533, 1537, 1541, 1543, 1547, 1551, 1553, 1557,
            1561, 1563, 1567, 1571, 1573, 1577, 1581, 1583, 1587, 1591, 1597,
            1601, 1607, 1611, 1617, 1621, 1627, 1631, 1637, 1641, 1647, 1651,
            1657, 1661, 1671, 1681, 1691, 1701, 1711, 1751, 1753, 1757, 1759,
            1761, 1763, 1767, 1769, 1771, 1773, 1777, 1779, 1781, 1783, 1787,
            1791, 1793, 1797, 1801, 1803, 1807, 1811, 1813, 1817, 1821, 1823,
            1827, 1831, 1833, 1837, 1841, 1847, 1851, 1857, 1861, 1867, 1871,
            1877, 1881, 1887, 1891, 1897, 1901, 1907, 1911, 1921, 1931, 1941,
            1951, 1961}
      [] OTHER -> {}

\* Array.prototype.slice: the relative index k of an array of length n
SliceIndex(k, n) == IF k < 0 THEN Max(n + k, 0) ELSE Min(k, n)

\* the 1-based positions selected by arr.slice(start, end)
SlicePositions(n, start, end) ==
    LET from == SliceIndex(start, n)
        to   == SliceIndex(end, n)
    IN  [k \in 1..Max(to - from, 0) |-> from + k]

\* arr.slice(start, end)
Slice(arr, start, end) ==
    LET pos == SlicePositions(Len(arr), start, end)
    IN  [k \in 1..Len(pos) |-> arr[pos[k]]]

----------------------------------------------------------------------------
(* queryAgentMetric *)

\* The agent's answer to GET /api/v1/data, as axios delivers it: the promise
\* rejects (transport failure, timeout, non-2xx status) with an error carrying
\* a message (error.message, a string for every error axios makes), or
\* resolves with a response whose body (response.data) is null or an object
\* with optional fields data and labels. dataKind tells what the field data
\* holds: nothing ("absent"), null, 0 ("zero"), the empty string ("empty"),
\* false, NaN ("nan"), a truthy value that is no array ("notarray"), or an
\* array, whose entries are in data. labelsPresent tells whether the field
\* labels holds a truthy value, which is in labels.
Reject(m) ==
    [kind |-> "reject", message |-> m, bodyNull |-> FALSE, dataKind |-> "absent",
     data |-> <<>>, labelsPresent |-> FALSE, labels |-> <<>>]
ResolveNull ==
    [kind |-> "resolve", message |-> Undefined, bodyNull |-> TRUE, dataKind |-> "absent",
     data |-> <<>>, labelsPresent |-> FALSE, labels |-> <<>>]
Resolve(dk, d, lp, l) ==
    [kind |-> "resolve", message |-> Undefined, bodyNull |-> FALSE, dataKind |-> dk,
     data |-> d, labelsPresent |-> lp, labels |-> l]

\* messages of the errors axios rejects with: the timeout of
\* config.netdata.agentTimeout, and a response of a status outside 2xx
TimeoutMessage == Str("timeout of 5000ms exceeded")
StatusMessage == Str("Request failed with status code 500")
\* message of the TypeError of reading .data of a null body
NullBodyMessage == Str("Cannot read properties of null (reading 'data')")

AgentReplies ==
    { Reject(TimeoutMessage),
      Reject(StatusMessage),
      ResolveNull,
      Resolve("absent", <<>>, FALSE, <<>>),
      Resolve("null", <<>>, TRUE, <<"time">>),
      Resolve("zero", <<>>, TRUE, <<"time">>),
      Resolve("empty", <<>>, FALSE, <<>>),
      Resolve("false", <<>>, FALSE, <<>>),
      Resolve("nan", <<>>, FALSE, <<>>),
      Resolve("notarray", <<>>, TRUE, <<"time">>),
      Resolve("array", <<>>, TRUE, <<"time", "value">>),
      Resolve("array", <<"p1">>, FALSE, <<>>),
      Resolve("array", <<"p1", "p2">>, TRUE, <<"time", "value">>) }

NoReply == [kind |-> "none"]
NoOutcome == [raised |-> FALSE, settled |-> FALSE]

\* a value returned by queryAgentMetric
Returned(r) == [raised |-> FALSE, settled |-> TRUE, value |-> r]
\* an exception leaving queryAgentMetric
Raised(m) == [raised |-> TRUE, settled |-> TRUE, message |-> m]

\* the try block: the request, then the reading of the body
\* (hasData = data && Array.isArray(data) && data.length > 0)
QueryTry(context, r) ==
    IF r.kind = "reject" THEN Raised(r.message)
    ELSE IF r.bodyNull THEN Raised(NullBodyMessage)
    ELSE LET hasData == CASE r.dataKind = "absent" -> Undefined
                          [] r.dataKind = "null" -> Null
                          [] r.dataKind = "zero" -> Num("0")
                          [] r.dataKind = "empty" -> Str("")
                          [] r.dataKind = "false" -> JsFalse
                          [] r.dataKind = "nan" -> Num("NaN")
                          [] r.dataKind = "notarray" -> JsFalse
                          [] r.dataKind = "array" ->
                               IF Len(r.data) > 0 THEN JsTrue ELSE JsFalse
         IN  Returned([context    |-> context,
                       active     |-> hasData,
                       dataPoints |-> IF Truthy(hasData) THEN Len(r.data) ELSE 0,
                       labels     |-> IF r.labelsPresent THEN r.labels ELSE <<>>,
                       lastValue  |-> IF Truthy(hasData) THEN Obj(r.data[1]) ELSE Null,
                       error      |-> Null])

\* the catch block: the failure becomes a result
QueryCatch(context, e) ==
    Returned([context    |-> context,
              active     |-> JsFalse,
              dataPoints |-> 0,
              labels     |-> <<>>,
              lastValue  |-> Null,
              error      |-> e.message])

\* a queryAgentMetric that lets the failure through
QueryNoCatch(context, r) == QueryTry(context, r)

queryAgentMetric(context, r) ==
    LET t == QueryTry(context, r)
    IN  IF t.raised THEN QueryCatch(context, t) ELSE t

----------------------------------------------------------------------------
(* testMetricsInBatches *)

\* the results object at the start of the call
InitResults(ctxs) ==
    [active   |-> <<>>,
     inactive |-> <<>>,
     errors   |-> <<>>,
     summary  |-> [total |-> Len(ctxs), tested |-> 0, activeCount |-> 0,
                   inactiveCount |-> 0, errorCount |-> 0]]

\* a loop condition that runs the body once before testing (do-while)
LoopCondDoWhile(idx, n) == idx = 0 \/ idx < n

\* the loop condition: i < contexts.length
LoopCond(idx, n) == idx < n

\* a batch end that takes one identifier too many
BatchEndOffByOne(idx, bs) == idx + bs + 1

\* the end index of the slice: i + batchSize
BatchEnd(idx, bs) == idx + bs

\* a pause condition that also pauses after a last, full batch
PauseNeededInclusive(idx, bs, n) == idx + bs <= n

\* the pause condition: i + batchSize < contexts.length
PauseNeeded(idx, bs, n) == idx + bs < n

\* a classification that looks at the data before the error
ClassifyDataFirst(result) ==
    IF Truthy(result.active) THEN "active"
    ELSE IF result.dataPoints = 0 THEN "inactive"
    ELSE "errors"

\* the list a settled result is pushed to:
\* if (result.error) errors; else if (result.active) active; else inactive
Classify(result) ==
    IF Truthy(result.error) THEN "errors"
    ELSE IF Truthy(result.active) THEN "active"
    ELSE "inactive"

CountField(list) ==
    CASE list = "errors" -> "errorCount"
      [] list = "active" -> "activeCount"
      [] list = "inactive" -> "inactiveCount"

\* a round that pushes the result and counts it as tested, but leaves the
\* count of its list as it is
PushResultUncounted(res, result) ==
    LET list == Classify(result)
    IN  [res EXCEPT ![list] = Append(@, result),
                    !.summary.tested = @ + 1]

\* one round of the categorizing loop
PushResult(res, result) ==
    LET list == Classify(result)
    IN  [res EXCEPT ![list] = Append(@, result),
                    !.summary.tested = @ + 1,
                    !.summary[CountField(list)] = @ + 1]

\* for (const result of batchResults) { ... }
RECURSIVE Categorize(_, _)
Categorize(res, batchResults) ==
    IF batchResults = <<>> THEN res
    ELSE Categorize(PushResult(res, Head(batchResults)), Tail(batchResults))

Range(f) == {f[x] : x \in DOMAIN f}

\* the identifier lists explored: of every length up to MaxLen, a list of
\* identifiers that all differ ("1", "2", ...) and a list that repeats one
\* identifier; and the batch sizes explored
ContextLists ==
    {[k \in 1..n |-> ToString(k)] : n \in 0..MaxLen}
    \cup {[k \in 1..n |-> "1"] : n \in 2..MaxLen}
BatchSizes == (0 - MinBatch)..MaxBatch

ProbeInit ==
    /\ contexts \in ContextLists
    /\ batchSize \in BatchSizes
    /\ i = 0
    /\ batch = <<>>
    /\ batchPos = <<>>
    /\ inflight = {}
    /\ outcome = [p \in 1..Len(contexts) |-> NoOutcome]
    /\ reply = [p \in 1..Len(contexts) |-> NoReply]
    /\ issued = [p \in 1..Len(contexts) |-> 0]
    /\ verdict = [p \in 1..Len(contexts) |-> "none"]
    /\ results = InitResults(contexts)
    /\ pauses = 0
    /\ batches = 0
    /\ iter = 0
    /\ pc = "loop"

\* The loop condition holds: the batch is sliced and one request per
\* identifier of it is issued (batch.map(context => queryAgentMetric(context))).
\* A loop that does not end by itself is followed for MaxIter iterations.
StartBatch ==
    /\ pc = "loop"
    /\ LoopCond(i, Len(contexts))
    /\ iter < MaxIter
    /\ LET pos == SlicePositions(Len(contexts), i, BatchEnd(i, batchSize))
       IN  /\ batch' = Slice(contexts, i, BatchEnd(i, batchSize))
           /\ batchPos' = pos
           /\ inflight' = Range(pos)
           /\ issued' = [p \in DOMAIN issued |->
                            IF p \in Range(pos) THEN issued[p] + 1 ELSE issued[p]]
           /\ outcome' = [p \in DOMAIN outcome |->
                            IF p \in Range(pos) THEN NoOutcome ELSE outcome[p]]
           /\ reply' = [p \in DOMAIN reply |->
                            IF p \in Range(pos) THEN NoReply ELSE reply[p]]
    /\ batches' = batches + 1
    /\ iter' = iter + 1
    /\ pc' = "await"
    /\ UNCHANGED <<contexts, batchSize, i, verdict, results, pauses>>

\* One agent request settles and its queryAgentMetric call ends. A call that
\* raises rejects the Promise.all at once, and the rejection leaves
\* testMetricsInBatches.
Settle(p) ==
    /\ pc = "await"
    /\ p \in inflight
    /\ \E r \in AgentReplies :
          LET o == queryAgentMetric(contexts[p], r)
          IN  /\ reply' = [reply EXCEPT ![p] = r]
              /\ outcome' = [outcome EXCEPT ![p] = o]
              /\ pc' = IF o.raised THEN "thrown" ELSE pc
    /\ inflight' = inflight \ {p}
    /\ UNCHANGED <<contexts, batchSize, i, batch, batchPos, issued, verdict,
                   results, pauses, batches, iter>>

\* Promise.all resolves: the results of the batch are categorized in the
\* order of the batch, then the pause before the next batch starts, or, with
\* no pause due, the loop index advances.
BatchSettled ==
    /\ pc = "await"
    /\ inflight = {}
    /\ LET batchResults == [k \in 1..Len(batchPos) |-> outcome[batchPos[k]].value]
       IN  /\ results' = Categorize(results, batchResults)
           /\ verdict' = [p \in DOMAIN verdict |->
                            IF p \in Range(batchPos)
                            THEN Classify(outcome[p].value) ELSE verdict[p]]
    /\ IF PauseNeeded(i, batchSize, Len(contexts))
       THEN /\ pauses' = pauses + 1
            /\ pc' = "pause"
            /\ i' = i
       ELSE /\ pauses' = pauses
            /\ pc' = "loop"
            /\ i' = i + batchSize
    /\ UNCHANGED <<contexts, batchSize, batch, batchPos, inflight, outcome, reply,
                   issued, batches, iter>>

\* the rate-limit timer fires: i += batchSize
PauseDone ==
    /\ pc = "pause"
    /\ i' = i + batchSize
    /\ pc' = "loop"
    /\ UNCHANGED <<contexts, batchSize, batch, batchPos, inflight, outcome, reply,
                   issued, verdict, results, pauses, batches, iter>>

\* the loop condition fails: return results
Return ==
    /\ pc = "loop"
    /\ ~LoopCond(i, Len(contexts))
    /\ pc' = "done"
    /\ UNCHANGED <<contexts, batchSize, i, batch, batchPos, inflight, outcome,
                   reply, issued, verdict, results, pauses, batches, iter>>

----------------------------------------------------------------------------
(* filterContextsByCategory *)
(* An identifier or a prefix is the sequence of its characters.             *)

\* longest identifier list passed to filterContextsByCategory
MaxFilterLen == 2

\* the category rule table; a prefix list is in the order of the source
METRIC_CATEGORIES ==
  [
    network |->
        <<
           <<"n", "e", "t", ".">>,
           <<"i", "p", ".">>,
           <<"i", "p", "v", "4", ".">>,
           <<"i", "p", "v", "6", ".">>,
           <<"s", "y", "s", "t", "e", "m", ".", "n", "e", "t">>,
           <<"n", "e", "t", "f", "i", "l", "t", "e", "r", ".">>,
           <<"k", "8", "s", ".", "c", "g", "r", "o", "u", "p", ".", "n", "e", "t", "_">>,
           <<"n", "e", "t", "d", "a", "t", "a", ".", "n", "e", "t", "w", "o", "r", "k">> >>,
    system |->
        <<
           <<"s", "y", "s", "t", "e", "m", ".", "c", "p", "u">>,
           <<"s", "y", "s", "t", "e", "m", ".", "r", "a", "m">>,
           <<"s", "y", "s", "t", "e", "m", ".", "l", "o", "a", "d">>,
           <<"s", "y", "s", "t", "e", "m", ".", "p", "r", "o", "c", "e", "s", "s", "e", "s">>,
           <<"s", "y", "s", "t", "e", "m", ".", "e", "n", "t", "r", "o", "p", "y">>,
           <<"s", "y", "s", "t", "e", "m", ".", "u", "p", "t", "i", "m", "e">>,
           <<"s", "y", "s", "t", "e", "m", ".", "i", "n", "t", "e", "r", "r", "u", "p", "t", "s">> >>,
    disk |->
        <<
           <<"d", "i", "s", "k", ".">>,
           <<"s", "y", "s", "t", "e", "m", ".", "i", "o">> >>,
    memory |->
        <<
           <<"m", "e", "m", ".">>,
           <<"s", "y", "s", "t", "e", "m", ".", "p", "g", "p", "g", "i", "o">> >>,
    docker |->
        <<
           <<"d", "o", "c", "k", "e", "r", ".">>,
           <<"c", "g", "r", "o", "u", "p", ".">> >>,
    kubernetes |->
        <<
           <<"k", "8", "s", ".">> >>,
    applications |->
        <<
           <<"a", "p", "p", ".">>,
           <<"u", "s", "e", "r", ".">>,
           <<"u", "s", "e", "r", "g", "r", "o", "u", "p", ".">> >>,
    sensors |->
        <<
           <<"s", "e", "n", "s", "o", "r", "s", ".">>,
           <<"s", "y", "s", "t", "e", "m", ".", "h", "w", ".", "s", "e", "n", "s", "o", "r">> >>,
    nvidia |->
        <<
           <<"n", "v", "i", "d", "i", "a", "_", "s", "m", "i", ".">> >>,
    netdata_internal |->
        <<
           <<"n", "e", "t", "d", "a", "t", "a", ".">> >>
  ]

\* Object.keys(METRIC_CATEGORIES): the own keys, in insertion order
CategoryNames ==
    << "network", "system", "disk", "memory", "docker", "kubernetes", "applications", "sensors", "nvidia", "netdata_internal" >>

\* properties every object inherits from Object.prototype
ObjectPrototypeKeys ==
    { "constructor", "toString", "toLocaleString", "valueOf", "hasOwnProperty",
      "isPrototypeOf", "propertyIsEnumerable", "__proto__",
      "__defineGetter__", "__defineSetter__", "__lookupGetter__",
      "__lookupSetter__" }

\* object[key] of a key the object does not own but Object.prototype has:
\* Object.prototype itself for __proto__, the function Object for
\* constructor, the method of that name for the others
InheritedProperty(key) ==
    IF key = "__proto__" THEN Obj("[inherited]")
    ELSE Fn(IF key = "constructor" THEN "Object" ELSE key)

\* METRIC_CATEGORIES[category]: an own property is a prefix array, an
\* inherited one a function (an object for __proto__), any other undefined
PropertyLookup(category) ==
    IF category \in DOMAIN METRIC_CATEGORIES
    THEN [type |-> "array", value |-> METRIC_CATEGORIES[category]]
    ELSE IF category \in ObjectPrototypeKeys
    THEN [type |-> IF category = "__proto__" THEN "object" ELSE "function",
          value |-> <<>>]
    ELSE [type |-> "undefined", value |-> <<>>]

\* context.startsWith(prefix)
StartsWith(context, prefix) ==
    /\ Len(prefix) <= Len(context)
    /\ SubSeq(context, 1, Len(prefix)) = prefix

\* a test that looks at the first prefix only
FirstPrefixOnly(prefixes, context) ==
    prefixes # <<>> /\ StartsWith(context, Head(prefixes))

\* prefixes.some(prefix => context.startsWith(prefix)): left to right, ending
\* at the first prefix that matches
RECURSIVE SomePrefix(_, _)
SomePrefix(prefixes, context) ==
    IF prefixes = <<>> THEN FALSE
    ELSE IF StartsWith(context, Head(prefixes)) THEN TRUE
    ELSE SomePrefix(Tail(prefixes), context)

\* contexts.filter(context => prefixes.some(...))
RECURSIVE FilterByPrefixes(_, _)
FilterByPrefixes(ctxs, prefixes) ==
    IF ctxs = <<>> THEN <<>>
    ELSE IF SomePrefix(prefixes, Head(ctxs))
         THEN <<Head(ctxs)>> \o FilterByPrefixes(Tail(ctxs), prefixes)
         ELSE FilterByPrefixes(Tail(ctxs), prefixes)

\* `Unknown category: ${category}. Available: ${Object.keys(...).join(', ')}`
UnknownCategoryMessage(category) ==
    [text |-> "Unknown category", category |-> category, available |-> CategoryNames]
\* the message of calling the missing method some of a non-array
NotAFunctionMessage ==
    [text |-> "prefixes.some is not a function", category |-> "", available |-> <<>>]

FcPending == [status |-> "pending"]
FcReturned(list) == [status |-> "returned", value |-> list]
FcThrew(name, message) == [status |-> "threw", name |-> name, message |-> message]

\* The callback of filter runs once per element: on a truthy non-array
\* property its call of prefixes.some throws at the first element, and an
\* empty list is returned as it is.
filterContextsByCategory(ctxs, category) ==
    LET prefixes == PropertyLookup(category)
    IN  IF ~Truthy(prefixes)
        THEN FcThrew("Error", UnknownCategoryMessage(category))
        ELSE IF prefixes.type # "array"
        THEN IF ctxs = <<>> THEN FcReturned(<<>>)
             ELSE FcThrew("TypeError", NotAFunctionMessage)
        ELSE FcReturned(FilterByPrefixes(ctxs, prefixes.value))

\* the identifiers, lists and category names explored
FilterIds ==
    { <<"n", "e", "t", ".", "e", "t", "h", "0">>,   \* net.eth0
      <<"s", "y", "s", "t", "e", "m", ".", "n", "e", "t">>,   \* system.net
      <<"s", "y", "s", "t", "e", "m", ".", "c", "p", "u">>,   \* system.cpu
      <<"n", "e", "t", "d", "a", "t", "a", ".", "n", "e", "t", "w", "o", "r", "k">>,   \* netdata.network
      <<"k", "8", "s", ".", "c", "g", "r", "o", "u", "p", ".", "n", "e", "t", "_", "r", "x">>,   \* k8s.cgroup.net_rx
      <<"d", "i", "s", "k", ".", "i", "o">>,   \* disk.io
      <<"m", "e", "m">>,   \* mem
      <<"x", "n", "e", "t", ".">>,   \* xnet.
      <<"u", "s", "e", "r", "g", "r", "o", "u", "p", ".", "x">> }   \* usergroup.x
FilterLists == UNION {[1..n -> FilterIds] : n \in 0..MaxFilterLen}
FilterCategories ==
    Range(CategoryNames) \cup {"constructor", "toString", "__proto__", "gpu", ""}

FilterInit ==
    /\ fcContexts \in FilterLists
    /\ fcCategory \in FilterCategories
    /\ fcResult = FcPending

\* the call of filterContextsByCategory(contexts, category)
FilterCall ==
    /\ fcResult = FcPending
    /\ fcResult' = filterContextsByCategory(fcContexts, fcCategory)
    /\ UNCHANGED <<fcContexts, fcCategory>>

----------------------------------------------------------------------------
(* makeCloudRequest and getNetDataAlarms *)

\* most entries of the alarm-counter list of the cloud API
MaxRooms == 2

\* What axios delivers for a cloud request: a rejection, with the message of
\* the upstream body (error.response?.data?.message, undefined when absent)
\* and the transport message (error.message), or a resolution with the body.
CloudReject(upstream, message) ==
    [kind |-> "reject", upstream |-> upstream, message |-> message]
CloudResolve(body) == [kind |-> "resolve", body |-> body]

ConfigErrorMessage == <<"NetData API token is not configured">>

\* makeCloudRequest: the configuration error, the upstream error or the body;
\* sent tells whether the HTTP request was made
makeCloudRequest(token, r) ==
    IF ~token
    THEN [raised |-> TRUE, sent |-> FALSE, message |-> ConfigErrorMessage]
    ELSE IF r.kind = "reject"
    THEN [raised |-> TRUE, sent |-> TRUE,
          message |-> <<"NetData Cloud API error: ",
                        JsString(OrElse(r.upstream, r.message))>>]
    ELSE [raised |-> FALSE, sent |-> TRUE, body |-> r.body]

CloudFailures ==
    { CloudReject(Undefined, Str("Request failed with status code 500")),
      CloudReject(Str("Invalid token"), Str("Request failed with status code 401")) }

\* ---- the bodies the cloud API and the agents answer with ----

\* room ids of the entries: the room list may lack any of them, and
\* "constructor" is also the name of an inherited property of roomIdToName
RoomIDs == {"r1", "r2", "constructor"}
AllNodes == Str("All nodes")

\* an entry of alarmsData.results: alarmCounter may be absent
Counters ==
    { [hasCounter |-> FALSE, warning |-> 0, critical |-> 0, unreachableCount |-> 0],
      [hasCounter |-> FALSE, warning |-> 0, critical |-> 0, unreachableCount |-> 1],
      [hasCounter |-> TRUE,  warning |-> 1, critical |-> 0, unreachableCount |-> 0],
      [hasCounter |-> TRUE,  warning |-> 0, critical |-> 2, unreachableCount |-> 1] }
RoomAlarmEntries ==
    { [roomID |-> id, hasCounter |-> c.hasCounter, warning |-> c.warning,
       critical |-> c.critical, unreachableCount |-> c.unreachableCount] :
      id \in RoomIDs, c \in Counters }

AlarmsBodies ==
    { [isNull |-> TRUE, hasResults |-> FALSE, results |-> <<>>],
      [isNull |-> FALSE, hasResults |-> FALSE, results |-> <<>>] }
    \cup { [isNull |-> FALSE, hasResults |-> TRUE, results |-> l] :
           l \in UNION {[1..n -> RoomAlarmEntries] : n \in 0..MaxRooms} }

RoomEntry(id, name) == [id |-> id, name |-> name]
RoomsBodies ==
    { [isNull |-> TRUE, isArray |-> FALSE, list |-> <<>>],
      [isNull |-> FALSE, isArray |-> FALSE, list |-> <<>>],
      [isNull |-> FALSE, isArray |-> TRUE, list |-> <<>>],
      [isNull |-> FALSE, isArray |-> TRUE, list |-> <<RoomEntry("r1", AllNodes)>>],
      [isNull |-> FALSE, isArray |-> TRUE,
       list |-> <<RoomEntry("r1", AllNodes), RoomEntry("r2", Str("room-a"))>>],
      [isNull |-> FALSE, isArray |-> TRUE,
       list |-> <<RoomEntry("r1", AllNodes), RoomEntry("r2", AllNodes)>>],
      [isNull |-> FALSE, isArray |-> TRUE,
       list |-> <<RoomEntry("r2", Str("room-a")), RoomEntry("r2", AllNodes)>>] }

NodeEntry(name, hasCounters, critical) ==
    [name |-> name, hasCounters |-> hasCounters, critical |-> critical]
NodesBodies ==
    { [isNull |-> TRUE, isArray |-> FALSE, list |-> <<>>],
      [isNull |-> FALSE, isArray |-> FALSE, list |-> <<>>],
      [isNull |-> FALSE, isArray |-> TRUE, list |-> <<NodeEntry("n1", FALSE, 0)>>],
      [isNull |-> FALSE, isArray |-> TRUE,
       list |-> <<NodeEntry("n1", TRUE, 1), NodeEntry("n2", TRUE, 0)>>],
      [isNull |-> FALSE, isArray |-> TRUE,
       list |-> <<NodeEntry("n1", TRUE, 1), NodeEntry("n2", TRUE, 2)>>] }

\* an alarm of an agent: its key, and the fields status (a character
\* sequence, empty when absent), name, info and chart (Undefined when absent)
Alarm(key, status, name, info, chart) ==
    [key |-> key, status |-> status, name |-> name, info |-> info, chart |-> chart]
StatusCRITICAL == <<"C", "R", "I", "T", "I", "C", "A", "L">>
StatusCritical == <<"c", "r", "i", "t", "i", "c", "a", "l">>
StatusWARNING == <<"W", "A", "R", "N", "I", "N", "G">>

\* the agent's answer to GET /api/v1/alarms?active=true
AgentAlarmReplies ==
    { [kind |-> "reject", hasAlarms |-> FALSE, alarms |-> <<>>],
      [kind |-> "resolve", hasAlarms |-> FALSE, alarms |-> <<>>],
      [kind |-> "resolve", hasAlarms |-> TRUE, alarms |->
          << Alarm("k1", StatusCRITICAL, Str("disk_full"), Str("disk is full"),
                   Str("disk.space")),
             Alarm("k2", StatusWARNING, Str("load"), Str("load is high"),
                   Str("system.load")) >>],
      [kind |-> "resolve", hasAlarms |-> TRUE, alarms |->
          << Alarm("k3", StatusCritical, Undefined, Undefined, Undefined),
             Alarm("k4", <<>>, Str("ram"), Undefined, Str("system.ram")) >>] }

\* what the three requests to the cloud API are answered with
AlarmsReplies == CloudFailures \cup {CloudResolve(b) : b \in AlarmsBodies}
RoomsReplies == CloudFailures \cup {CloudResolve(b) : b \in RoomsBodies}
NodesReplies == CloudFailures \cup {CloudResolve(b) : b \in NodesBodies}

\* ---- the processing of getNetDataAlarms ----

\* roomIdToName[roomID] of Object.fromEntries(roomsData.map(r => [r.id, r.name])):
\* the name of the last entry with that id; an id of no entry reads an
\* inherited property of the object, or undefined
RECURSIVE RoomIdToName(_, _)
RoomIdToName(list, roomID) ==
    IF list = <<>>
    THEN IF roomID \in ObjectPrototypeKeys THEN InheritedProperty(roomID)
         ELSE Undefined
    ELSE IF list[Len(list)].id = roomID THEN list[Len(list)].name
    ELSE RoomIdToName(SubSeq(list, 1, Len(list) - 1), roomID)

\* the roomData object built for one alarm-counter entry:
\* room.alarmCounter?.warning || 0, ...
RoomData(list, room) ==
    [roomID      |-> room.roomID,
     roomName    |-> RoomIdToName(list, room.roomID),
     warnings    |-> IF room.hasCounter THEN room.warning ELSE 0,
     critical    |-> IF room.hasCounter THEN room.critical ELSE 0,
     unreachable |-> room.unreachableCount]

\* a retention that keeps every entry with an alarm
RetainedAnyAlarm(d) ==
    d.warnings > 0 \/ d.critical > 0 \/ d.unreachable > 0

\* a retention that keeps every identifiable room
RetainedAnyRoom(d) ==
    /\ (d.warnings > 0 \/ d.critical > 0 \/ d.unreachable > 0)
    /\ Truthy(d.roomName)

\* the entry is pushed to roomsWithAlarms: it has an alarm, its room is
\* identified, and the room is the "All nodes" room
Retained(d) ==
    /\ (d.warnings > 0 \/ d.critical > 0 \/ d.unreachable > 0)
    /\ Truthy(d.roomName)
    /\ d.roomName = AllNodes

\* roomAlarms.forEach(...): the retained entries, in the order of the fetch
RECURSIVE RoomsWithAlarms(_, _)
RoomsWithAlarms(list, alarms) ==
    IF alarms = <<>> THEN <<>>
    ELSE LET d == RoomData(list, Head(alarms))
         IN  (IF Retained(d) THEN <<d>> ELSE <<>>)
             \o RoomsWithAlarms(list, Tail(alarms))

\* the retained entries with critical > 0
RoomsWithCriticals(retained) == SelectSeq(retained, LAMBDA d : d.critical > 0)

\* array.reduce((sum, room) => sum + room[field], 0)
RECURSIVE SumField(_, _)
SumField(list, field) ==
    IF list = <<>> THEN 0 ELSE Head(list)[field] + SumField(Tail(list), field)

\* a summary whose totalRooms counts the retained entries
AlarmSummaryRetainedRooms(raw, retained, details) ==
    [hasError |-> FALSE,
     error    |-> <<>>,
     totals   |-> [warnings        |-> SumField(retained, "warnings"),
                   critical        |-> SumField(retained, "critical"),
                   unreachable     |-> SumField(retained, "unreachable"),
                   totalRooms      |-> Len(retained),
                   roomsWithIssues |-> Len(retained)],
     roomsWithAlarms      |-> retained,
     criticalAlarmDetails |-> details,
     allRooms             |-> raw]

\* the summary returned by the try block
AlarmSummary(raw, retained, details) ==
    [hasError |-> FALSE,
     error    |-> <<>>,
     totals   |-> [warnings        |-> SumField(retained, "warnings"),
                   critical        |-> SumField(retained, "critical"),
                   unreachable     |-> SumField(retained, "unreachable"),
                   totalRooms      |-> Len(raw),
                   roomsWithIssues |-> Len(retained)],
     roomsWithAlarms      |-> retained,
     criticalAlarmDetails |-> details,
     allRooms             |-> raw]

\* the summary returned by the catch block
ErrorSummary(message) ==
    [hasError |-> TRUE,
     error    |-> message,
     totals   |-> [warnings |-> 0, critical |-> 0, unreachable |-> 0,
                   totalRooms |-> 0, roomsWithIssues |-> 0],
     roomsWithAlarms      |-> <<>>,
     criticalAlarmDetails |-> <<>>,
     allRooms             |-> <<>>]

AlarmPending == [status |-> "pending"]
AlarmReturned(summary) == [status |-> "returned", value |-> summary]
AlarmThrew(message) == [status |-> "threw", message |-> message]

\* a catch block that passes the error on
AlarmCatchRethrow(message) == AlarmThrew(message)

\* catch (error) { return { error: error.message, totals: zeros, ... } }
AlarmCatch(message) == AlarmReturned(ErrorSummary(message))

\* the letters String.prototype.toUpperCase changes, and what they become
LowerLetters ==
    << "a", "b", "c", "d", "e", "f", "g", "h", "i", "j", "k", "l", "m",
       "n", "o", "p", "q", "r", "s", "t", "u", "v", "w", "x", "y", "z" >>
UpperLetters ==
    << "A", "B", "C", "D", "E", "F", "G", "H", "I", "J", "K", "L", "M",
       "N", "O", "P", "Q", "R", "S", "T", "U", "V", "W", "X", "Y", "Z" >>

\* String.prototype.toUpperCase on one character: a lowercase letter becomes
\* its capital, every other character stays
UpperChar(c) ==
    IF \E k \in 1..Len(LowerLetters) : LowerLetters[k] = c
    THEN UpperLetters[CHOOSE k \in 1..Len(LowerLetters) : LowerLetters[k] = c]
    ELSE c
ToUpperCase(str) == [k \in 1..Len(str) |-> UpperChar(str[k])]

\* a comparison of the status that minds the case
IsCriticalExact(alarm) == alarm.status = StatusCRITICAL

\* alarm.status && alarm.status.toUpperCase() === 'CRITICAL'
IsCritical(alarm) ==
    alarm.status # <<>> /\ ToUpperCase(alarm.status) = StatusCRITICAL

\* the record pushed for a critical alarm
CriticalAlert(node, room, alarm) ==
    [host        |-> node.name,
     alertName   |-> OrElse(alarm.name, Str(alarm.key)),
     status      |-> alarm.status,
     description |-> OrElse(alarm.info, Str("Critical alert detected")),
     chart       |-> OrElse(alarm.chart, Str("Unknown")),
     room        |-> room.roomName]

\* for (const [alarmKey, alarmData] of Object.entries(alarms)) { ... }
RECURSIVE ExtractCritical(_, _, _)
ExtractCritical(node, room, alarms) ==
    IF alarms = <<>> THEN <<>>
    ELSE (IF IsCritical(Head(alarms))
          THEN <<CriticalAlert(node, room, Head(alarms))>> ELSE <<>>)
         \o ExtractCritical(node, room, Tail(alarms))

\* nodesData.filter(node => node.alarmCounters && node.alarmCounters.critical > 0)
NodesWithCriticals(list) ==
    SelectSeq(list, LAMBDA n : n.hasCounters /\ n.critical > 0)

NoFetch == [state |-> "idle"]
Pending == [state |-> "pending"]
Resolved(body) == [state |-> "resolved", body |-> body]
Rejected(message) == [state |-> "rejected", message |-> message]
NoRoom == [roomID |-> "", roomName |-> Str(""), warnings |-> 0, critical |-> 0,
           unreachable |-> 0]

AlarmInit ==
    /\ apiToken \in BOOLEAN
    /\ alarmsFetch = NoFetch
    /\ roomsFetch = NoFetch
    /\ roomAlarms = <<>>
    /\ roomsWithAlarms = <<>>
    /\ roomQueue = <<>>
    /\ curRoom = NoRoom
    /\ nodeQueue = <<>>
    /\ criticalAlerts = <<>>
    /\ skipped = <<>>
    /\ drillLog = <<>>
    /\ cloudCalls = 0
    /\ agentCalls = 0
    /\ alarmResult = AlarmPending
    /\ apc = "start"

\* Promise.all([makeCloudRequest(alarms), makeCloudRequest(rooms)]): without a
\* token both calls reject before any request, Promise.all rejects, and the
\* catch block returns; with a token both requests are sent.
AlarmStart ==
    /\ apc = "start"
    /\ IF ~apiToken
       THEN LET o == makeCloudRequest(apiToken, CloudResolve(<<>>))
            IN  /\ alarmsFetch' = Rejected(o.message)
                /\ roomsFetch' = Rejected(o.message)
                /\ alarmResult' = AlarmCatch(o.message)
                /\ cloudCalls' = cloudCalls
                /\ apc' = "done"
       ELSE /\ alarmsFetch' = Pending
            /\ roomsFetch' = Pending
            /\ alarmResult' = alarmResult
            /\ cloudCalls' = cloudCalls + 2
            /\ apc' = "fetching"
    /\ UNCHANGED <<apiToken, roomAlarms, roomsWithAlarms, roomQueue, curRoom,
                   nodeQueue, criticalAlerts, skipped, drillLog,
                   agentCalls>>

\* an entry of drillLog: the room, the node (NoNode for the request of a
\* node list), whether the request gave something to work on, and what it
\* gave (the node list, or the alarms)
NoNode == [name |-> "", hasCounters |-> FALSE, critical |-> 0]
RoomLogged(room, ok, list) ==
    [kind |-> "room", room |-> room, node |-> NoNode, ok |-> ok, items |-> list]
NodeLogged(room, node, ok, alarms) ==
    [kind |-> "node", room |-> room, node |-> node, ok |-> ok, items |-> alarms]

\* a catch block of the drill-down that passes the error on
DrillCatchRethrow(message) == [raised |-> TRUE, message |-> message]

\* catch (nodeError) { continue; }
NodeCatch(message) == [raised |-> FALSE, message |-> message]

\* catch (roomError) { continue; }
RoomCatch(message) == [raised |-> FALSE, message |-> message]

\* Where the call stands when a step of it ends, and what the step sent:
\* the position, the rooms and nodes still to visit, the requests sent to the
\* cloud API and to agents in the step, and the result of the call.
Stand(pos, rooms, room, nodes, cloud, agent, result) ==
    [apc |-> pos, roomQueue |-> rooms, curRoom |-> room, nodeQueue |-> nodes,
     cloud |-> cloud, agent |-> agent, result |-> result]

\* the catch block of getNetDataAlarms ends the call
AlarmStop(room, message) ==
    Stand("done", <<>>, room, <<>>, 0, 0, AlarmCatch(message))

\* The loops of getCriticalAlarmDetails from the end of the work on a reply
\* to the next await: the agent of the next node with criticals of the room
\* is asked (await axios.get); with no such node the node list of the next
\* room is asked (await makeCloudRequest); with no room left the function
\* returns and getNetDataAlarms returns the summary. The request goes out in
\* the step that worked on the previous reply; its reply is worked on in a
\* later step.
DrillContinue(rooms, room, nodes, alerts, raw, retained) ==
    IF nodes # <<>>
    THEN Stand("await_agent", rooms, room, nodes, 0, 1, AlarmPending)
    ELSE IF rooms # <<>>
    THEN Stand("await_nodes", Tail(rooms), Head(rooms), <<>>, 1, 0, AlarmPending)
    ELSE Stand("done", <<>>, room, <<>>, 0, 0,
               AlarmReturned(AlarmSummary(raw, retained, alerts)))

\* Both requests resolved: the entries are retained and summed. Reading
\* .results of a null body, or calling .map of a body that is no array,
\* throws a TypeError, which the catch block turns into the error summary.
\* With no room with criticals the summary is returned at once; else
\* getCriticalAlarmDetails starts and asks for the nodes of the first room.
ProcessAlarms(alarmsBody, roomsBody) ==
    IF alarmsBody.isNull
    THEN [roomAlarms |-> <<>>, roomsWithAlarms |-> <<>>,
          stand |-> AlarmStop(NoRoom,
                       <<"Cannot read properties of null (reading 'results')">>)]
    ELSE IF roomsBody.isNull
    THEN [roomAlarms |-> alarmsBody.results, roomsWithAlarms |-> <<>>,
          stand |-> AlarmStop(NoRoom,
                       <<"Cannot read properties of null (reading 'map')">>)]
    ELSE IF ~roomsBody.isArray
    THEN [roomAlarms |-> alarmsBody.results, roomsWithAlarms |-> <<>>,
          stand |-> AlarmStop(NoRoom, <<"roomsData.map is not a function">>)]
    ELSE LET raw == alarmsBody.results
             retained == RoomsWithAlarms(roomsBody.list, raw)
         IN  [roomAlarms |-> raw, roomsWithAlarms |-> retained,
              stand |-> DrillContinue(RoomsWithCriticals(retained), NoRoom, <<>>,
                                      <<>>, raw, retained)]

\* The request of the alarm counters settles with one of the replies. A
\* rejection rejects the Promise.all and the catch block returns. A
\* resolution after that of the room list resolves the Promise.all, and the
\* call goes on to its next await or to its return in the same step.
AlarmsSettle(replies) ==
    /\ apc = "fetching"
    /\ alarmsFetch = Pending
    /\ \E r \in replies :
          LET o == makeCloudRequest(apiToken, r)
          IN  IF o.raised
              THEN /\ alarmsFetch' = Rejected(o.message)
                   /\ alarmResult' = AlarmCatch(o.message)
                   /\ apc' = "done"
                   /\ UNCHANGED <<roomAlarms, roomsWithAlarms, roomQueue, curRoom,
                                  nodeQueue, cloudCalls, agentCalls>>
              ELSE IF roomsFetch.state # "resolved"
              THEN /\ alarmsFetch' = Resolved(o.body)
                   /\ UNCHANGED <<alarmResult, apc, roomAlarms, roomsWithAlarms,
                                  roomQueue, curRoom, nodeQueue, cloudCalls,
                                  agentCalls>>
              ELSE LET p == ProcessAlarms(o.body, roomsFetch.body)
                   IN  /\ alarmsFetch' = Resolved(o.body)
                       /\ roomAlarms' = p.roomAlarms
                       /\ roomsWithAlarms' = p.roomsWithAlarms
                       /\ roomQueue' = p.stand.roomQueue
                       /\ curRoom' = p.stand.curRoom
                       /\ nodeQueue' = p.stand.nodeQueue
                       /\ cloudCalls' = cloudCalls + p.stand.cloud
                       /\ agentCalls' = agentCalls + p.stand.agent
                       /\ alarmResult' = p.stand.result
                       /\ apc' = p.stand.apc
    /\ UNCHANGED <<apiToken, roomsFetch, criticalAlerts, skipped, drillLog>>

\* The request of the room list settles, in the same way.
RoomsSettle(replies) ==
    /\ apc = "fetching"
    /\ roomsFetch = Pending
    /\ \E r \in replies :
          LET o == makeCloudRequest(apiToken, r)
          IN  IF o.raised
              THEN /\ roomsFetch' = Rejected(o.message)
                   /\ alarmResult' = AlarmCatch(o.message)
                   /\ apc' = "done"
                   /\ UNCHANGED <<roomAlarms, roomsWithAlarms, roomQueue, curRoom,
                                  nodeQueue, cloudCalls, agentCalls>>
              ELSE IF alarmsFetch.state # "resolved"
              THEN /\ roomsFetch' = Resolved(o.body)
                   /\ UNCHANGED <<alarmResult, apc, roomAlarms, roomsWithAlarms,
                                  roomQueue, curRoom, nodeQueue, cloudCalls,
                                  agentCalls>>
              ELSE LET p == ProcessAlarms(alarmsFetch.body, o.body)
                   IN  /\ roomsFetch' = Resolved(o.body)
                       /\ roomAlarms' = p.roomAlarms
                       /\ roomsWithAlarms' = p.roomsWithAlarms
                       /\ roomQueue' = p.stand.roomQueue
                       /\ curRoom' = p.stand.curRoom
                       /\ nodeQueue' = p.stand.nodeQueue
                       /\ cloudCalls' = cloudCalls + p.stand.cloud
                       /\ agentCalls' = agentCalls + p.stand.agent
                       /\ alarmResult' = p.stand.result
                       /\ apc' = p.stand.apc
    /\ UNCHANGED <<apiToken, alarmsFetch, criticalAlerts, skipped, drillLog>>

\* getCriticalAlarmDetails, the reply to the request of the node list of
\* curRoom: a failure, or a body that cannot be filtered, is caught by the
\* room's catch block, which goes on with the next room; else the nodes with
\* criticals are kept. The call then goes on to its next await or to its
\* return in the same step.
DrillRoom(replies) ==
    /\ apc = "await_nodes"
    /\ \E r \in replies :
          LET o == makeCloudRequest(apiToken, r)
              failed == o.raised \/ ~o.body.isArray
              message == IF o.raised THEN o.message
                         ELSE IF o.body.isNull
                         THEN <<"Cannot read properties of null (reading 'filter')">>
                         ELSE <<"nodesData.filter is not a function">>
              caught == RoomCatch(message)
              nodes == IF failed THEN <<>> ELSE NodesWithCriticals(o.body.list)
              stand == IF failed /\ caught.raised
                       THEN AlarmStop(curRoom, caught.message)
                       ELSE DrillContinue(roomQueue, curRoom, nodes, criticalAlerts,
                                          roomAlarms, roomsWithAlarms)
          IN  /\ drillLog' = Append(drillLog,
                                    RoomLogged(curRoom, ~failed,
                                               IF failed THEN <<>> ELSE o.body.list))
              /\ skipped' = IF failed /\ ~caught.raised
                            THEN Append(skipped, curRoom.roomID) ELSE skipped
              /\ roomQueue' = stand.roomQueue
              /\ curRoom' = stand.curRoom
              /\ nodeQueue' = stand.nodeQueue
              /\ cloudCalls' = cloudCalls + stand.cloud
              /\ agentCalls' = agentCalls + stand.agent
              /\ alarmResult' = stand.result
              /\ apc' = stand.apc
    /\ UNCHANGED <<apiToken, alarmsFetch, roomsFetch, roomAlarms, roomsWithAlarms,
                   criticalAlerts>>

\* getCriticalAlarmDetails, the reply of the agent of the first node of
\* nodeQueue to the request of its active alarms: a failure is caught by the
\* node's catch block, which goes on with the next node (an error leaving
\* that block would reach the room's catch block, and one leaving that, the
\* catch block of getNetDataAlarms); else the critical alarms are pushed.
\* The call then goes on to its next await or to its return in the same
\* step.
DrillNode(replies) ==
    /\ apc = "await_agent"
    /\ \E r \in replies :
          LET node == Head(nodeQueue)
              failed == r.kind = "reject"
              alarms == IF r.hasAlarms THEN r.alarms ELSE <<>>
              caught == NodeCatch(<<"timeout of 5000ms exceeded">>)
              passed == RoomCatch(caught.message)
              alerts == IF failed THEN criticalAlerts
                        ELSE criticalAlerts \o ExtractCritical(node, curRoom, alarms)
              nodes == IF failed /\ caught.raised THEN <<>> ELSE Tail(nodeQueue)
              stand == IF failed /\ caught.raised /\ passed.raised
                       THEN AlarmStop(curRoom, passed.message)
                       ELSE DrillContinue(roomQueue, curRoom, nodes, alerts,
                                          roomAlarms, roomsWithAlarms)
          IN  /\ drillLog' = Append(drillLog,
                                    NodeLogged(curRoom, node, ~failed,
                                               IF failed THEN <<>> ELSE alarms))
              /\ skipped' = IF failed /\ ~(caught.raised /\ passed.raised)
                            THEN Append(skipped, node.name) ELSE skipped
              /\ criticalAlerts' = alerts
              /\ roomQueue' = stand.roomQueue
              /\ curRoom' = stand.curRoom
              /\ nodeQueue' = stand.nodeQueue
              /\ cloudCalls' = cloudCalls + stand.cloud
              /\ agentCalls' = agentCalls + stand.agent
              /\ alarmResult' = stand.result
              /\ apc' = stand.apc
    /\ UNCHANGED <<apiToken, alarmsFetch, roomsFetch, roomAlarms, roomsWithAlarms>>

----------------------------------------------------------------------------
(* The tool router and the tool handlers *)

\* getTools().map(tool => tool.name) of the three services
NetDataToolNames ==
    << "get_space_info", "get_nodes_info", "get_infrastructure_overview",
       "get_room_contexts", "get_room_nodes", "test_room_parameter",
       "debug_api_call", "test_direct_room_contexts",
       "test_category_metrics_activity", "test_network_metrics_activity",
       "get_active_metrics_summary" >>
AkashToolNames ==
    << "get_akash_providers_down", "get_akash_gpu_issues", "get_akash_cpu_issues",
       "get_akash_memory_issues", "get_akash_partial_failures",
       "get_akash_all_issues_report" >>
GitHubToolNames ==
    << "search_wiki", "get_wiki_page", "list_rpc_nodes", "get_wiki_pages_list" >>

\* array.includes(name)
Includes(list, name) == \E k \in 1..Len(list) : list[k] = name

\* getAllTools(): the tools of the three services, in the order NetData,
\* Akash, GitHub
getAllTools == NetDataToolNames \o AkashToolNames \o GitHubToolNames

\* a switch with the cases of the first two NetData tools only
NetDataSwitchWithoutSummary(name) ==
    CASE name = "get_space_info" -> "getSpaceInfo"
      [] name = "get_nodes_info" -> "getNodesInfo"
      [] OTHER -> "default"

\* the switch of netdata.handleToolCall: the handler function of the case,
\* or "default"
NetDataSwitch(name) ==
    CASE name = "get_space_info" -> "getSpaceInfo"
      [] name = "get_nodes_info" -> "getNodesInfo"
      [] name = "get_infrastructure_overview" -> "getInfrastructureOverview"
      [] name = "get_room_contexts" -> "getRoomContexts"
      [] name = "get_room_nodes" -> "getRoomNodes"
      [] name = "test_room_parameter" -> "testRoomParameter"
      [] name = "debug_api_call" -> "debugApiCall"
      [] name = "test_direct_room_contexts" -> "testDirectRoomContexts"
      [] name = "test_category_metrics_activity" -> "testCategoryMetricsActivity"
      [] name = "test_network_metrics_activity" -> "testNetworkMetricsActivity"
      [] name = "get_active_metrics_summary" -> "getActiveMetricsSummary"
      [] OTHER -> "default"

\* the switch of akash.handleToolCall
AkashSwitch(name) ==
    CASE name = "get_akash_providers_down" -> "getAkashProvidersDown"
      [] name = "get_akash_gpu_issues" -> "getAkashGpuIssues"
      [] name = "get_akash_cpu_issues" -> "getAkashCpuIssues"
      [] name = "get_akash_memory_issues" -> "getAkashMemoryIssues"
      [] name = "get_akash_partial_failures" -> "getAkashPartialFailures"
      [] name = "get_akash_all_issues_report" -> "getAkashAllIssuesReport"
      [] OTHER -> "default"

\* the switch of github.handleToolCall
GitHubSwitch(name) ==
    CASE name = "search_wiki" -> "searchWiki"
      [] name = "get_wiki_page" -> "getWikiPage"
      [] name = "list_rpc_nodes" -> "listRpcNodes"
      [] name = "get_wiki_pages_list" -> "getWikiPagesList"
      [] OTHER -> "default"

NoRoute == [service |-> "none", handler |-> "none"]
Route(service, handler) == [service |-> service, handler |-> handler]

\* a router that knows the NetData and the Akash service only
handleToolCallTwoServices(name) ==
    IF Includes(NetDataToolNames, name) THEN Route("netdata", NetDataSwitch(name))
    ELSE IF Includes(AkashToolNames, name) THEN Route("akash", AkashSwitch(name))
    ELSE NoRoute

\* handleToolCall of the services: the service whose tool names include the
\* name, asked in the order NetData, Akash, GitHub, and the case of its switch
handleToolCall(name) ==
    IF Includes(NetDataToolNames, name) THEN Route("netdata", NetDataSwitch(name))
    ELSE IF Includes(AkashToolNames, name) THEN Route("akash", AkashSwitch(name))
    ELSE IF Includes(GitHubToolNames, name) THEN Route("github", GitHubSwitch(name))
    ELSE NoRoute

\* ---- the outcome of a call ----

ToolPending == [status |-> "pending"]
ToolReturned(response) == [status |-> "returned", value |-> response]
ToolThrew(name, code, message) ==
    [status |-> "threw", name |-> name, code |-> code, message |-> message]

\* new McpError(ErrorCode.MethodNotFound, `Unknown tool: ${name}`)
UnknownToolError(name) ==
    ToolThrew("McpError", "MethodNotFound", <<"Unknown tool: ", name>>)
\* the name a service's handleToolCall writes in the message of its default
\* case: "NetData", "Akash", "GitHub"
ServiceLabel(service) ==
    CASE service = "netdata" -> "NetData"
      [] service = "akash" -> "Akash"
      [] service = "github" -> "GitHub"
\* new Error(`Unknown NetData tool: ${name}`) of the default of a switch;
\* label is the name as the service writes it
UnknownServiceToolError(label, name) ==
    ToolThrew("Error", "none", <<"Unknown ", label, " tool: ", name>>)

\* a template literal and the values of its placeholders
Text(template, values) == [template |-> template, values |-> values]
\* { content: [{ type: "text", text }] }
Envelope(text) == [content |-> <<[type |-> "text", text |-> text]>>]

\* ---- the arguments ----

\* a call without arguments, and an arguments object (absent fields read
\* undefined)
\* const { room_name, sample_size = 10 } = args || {}
DefaultSampleSize == 10

\* the sample_size argument: absent, or a number
NoSampleSize == [given |-> FALSE, value |-> 0]
SampleSizeOf(n) == [given |-> TRUE, value |-> n]
SampleSize(arg) == IF arg.given THEN arg.value ELSE DefaultSampleSize

MissingArgs ==
    [present |-> FALSE, room_name |-> Undefined, category |-> Undefined,
     query |-> Undefined, page_name |-> Undefined, sample_size |-> NoSampleSize]
Args(room_name, category, query, page_name) ==
    [present |-> TRUE, room_name |-> room_name, category |-> category,
     query |-> query, page_name |-> page_name, sample_size |-> NoSampleSize]

\* const { field } = args || {}
GuardedField(args, field) == IF args.present THEN args[field] ELSE Undefined

\* ---- the room registry ----

ROOM_IDS ==
    [k \in { "valdi-sdg-h100", "colo-he-nucs", "colo-he-proxmox2",
             "evergreen-rtx-4090", "cato-v100", "all-nodes", "valdi-wdc-h100",
             "colo-he-proxmox", "nebulablock-dfw-4090", "coreweave-sandbox" } |->
        CASE k = "valdi-sdg-h100" -> "016d43f2-d5c0-4a78-913c-a0bc91e245ed"
          [] k = "colo-he-nucs" -> "2421c260-1423-4f1a-bb47-ad5dc9e765fd"
          [] k = "colo-he-proxmox2" -> "2d177350-fe36-4f06-a211-364ba9b02abe"
          [] k = "evergreen-rtx-4090" -> "36629903-e073-4df9-836f-2e1512b4871e"
          [] k = "cato-v100" -> "72789f00-8cc4-48e3-90a0-3ea87170eb6a"
          [] k = "all-nodes" -> "93e19508-b494-4999-957f-802b48a2ba0d"
          [] k = "valdi-wdc-h100" -> "b62ef6bd-2007-4a7a-a633-b8b62caf1e9e"
          [] k = "colo-he-proxmox" -> "bbf6d7ac-faf7-4037-9b44-db1e2404bab1"
          [] k = "nebulablock-dfw-4090" -> "fb090f13-2e25-494f-960a-04a751f7bd0e"
          [] OTHER -> "ffc6dce8-079f-4dc4-9b34-2a6f1e95a467"]

\* Object.keys(ROOM_IDS): the own keys, in insertion order
RoomNames ==
    << "valdi-sdg-h100", "colo-he-nucs", "colo-he-proxmox2", "evergreen-rtx-4090",
       "cato-v100", "all-nodes", "valdi-wdc-h100", "colo-he-proxmox",
       "nebulablock-dfw-4090", "coreweave-sandbox" >>

\* ROOM_IDS[room_name]: an own property is the room id, an inherited one a
\* function (an object for __proto__), any other undefined
RoomIdLookup(room_name) ==
    IF room_name \in DOMAIN ROOM_IDS
    THEN Str(ROOM_IDS[room_name])
    ELSE IF room_name \in ObjectPrototypeKeys
    THEN InheritedProperty(room_name)
    ELSE Undefined

\* ---- the handlers ----

\* What a handler does before its first request, and the texts of its return
\* statements: how it reads args (destructure: "none", "guarded" by
\* `args || {}`, or "unguarded"), the fields it requires and its answer
\* without them, what its body asks (upstream: "none"; "cloud" for one call
\* of makeCloudRequest; "overview" for two calls in a row; "room" for the
\* room lookup followed by makeCloudRequest; "contexts" for a call of
\* getRoomContexts followed by the probes of the agent; "axios" for its own
\* axios.get; "akash" for one call of makeAkashRequest; "report" for
\* getNetDataAlarms and five calls of makeAkashRequest at once; "search",
\* "page", "rpc" and "list" for the wiki), the text of its try block
\* (okTemplate), the text of the other return statement of its try block
\* (otherTemplate, "" when it has none), and the text of its catch block.
Shape(destructure, required, requiredText, upstream, okTemplate, otherTemplate, errorTemplate) ==
    [destructure |-> destructure, required |-> required,
     requiredText |-> requiredText, upstream |-> upstream,
     okTemplate |-> okTemplate, otherTemplate |-> otherTemplate,
     errorTemplate |-> errorTemplate]

RoomNameRequired == "Error: room_name parameter is required"
NotFoundTemplate ==
    "Room \"${room_name}\" not found. Available rooms: ${availableRooms}"
NoContextsTemplate == "No ${category} contexts found in room \"${room_name}\""
AnalysisTemplate == "METRIC ACTIVITY ANALYSIS - ${category.toUpperCase()} CATEGORY..."
AnalysisErrorTemplate == "Error testing ${category} metrics activity: ${error.message}"

HandlerShape(handler) ==
    CASE handler = "getSpaceInfo" ->
           Shape("none", <<>>, "", "cloud",
                 "NetData Space Information:\n${JSON.stringify(spacesData, null, 2)}",
                 "",
                 "Error fetching space info: ${error.message}")
      [] handler = "getNodesInfo" ->
           Shape("none", <<>>, "", "cloud",
                 "NetData Nodes Information:\n${JSON.stringify(nodesData, null, 2)}",
                 "",
                 "Error fetching nodes info: ${error.message}")
      [] handler = "getInfrastructureOverview" ->
           Shape("none", <<>>, "", "overview",
                 "NetData Infrastructure Analysis (ENHANCED):\n${JSON.stringify(analysis, null, 2)}",
                 "",
                 "Error analyzing infrastructure: ${error.message}")
      [] handler = "getRoomContexts" ->
           Shape("guarded", <<"room_name">>, RoomNameRequired, "room",
                 "Room Contexts for \"${room_name}\" (${contexts.length} contexts found):\n${JSON.stringify(contexts, null, 2)}",
                 NotFoundTemplate,
                 "Error getting room contexts: ${error.message}")
      [] handler = "getRoomNodes" ->
           Shape("guarded", <<"room_name">>, RoomNameRequired, "room",
                 "Room Nodes for \"${room_name}\" (${nodesData.length} nodes found):\n${JSON.stringify(nodesData, null, 2)}",
                 NotFoundTemplate,
                 "Error getting room nodes: ${error.message}")
      [] handler = "testRoomParameter" ->
           Shape("guarded", <<>>, "", "none",
                 "Parameter test successful!\n\nRoom name received: ${room_name}\nRoom ID lookup: ${ROOM_IDS[room_name] || 'Not found'}\nAPI token present: ${!!config.netdata.apiToken}...",
                 "", "")
      [] handler = "debugApiCall" ->
           Shape("none", <<>>, "", "none",
                 "Debug Info: spaceId=${config.netdata.spaceId}, tokenPresent=${!!config.netdata.apiToken}, ...",
                 "", "")
      [] handler = "testDirectRoomContexts" ->
           Shape("none", <<>>, "", "axios",
                 "SUCCESS: ${JSON.stringify(info)} - Got ${response.data.results ? response.data.results.length : 'unknown'} contexts",
                 "",
                 "FAILED: ${JSON.stringify(info)} - Error: ${error.response?.status || error.message}")
      [] handler = "testCategoryMetricsActivity" ->
           Shape("guarded", <<"room_name", "category">>,
                 "Error: room_name and category are required", "contexts",
                 AnalysisTemplate, NoContextsTemplate, AnalysisErrorTemplate)
      [] handler = "testNetworkMetricsActivity" ->
           Shape("guarded", <<"room_name">>, "Error: room_name is required",
                 "contexts",
                 AnalysisTemplate, NoContextsTemplate, AnalysisErrorTemplate)
      [] handler = "getActiveMetricsSummary" ->
           Shape("guarded", <<"room_name">>, "Error: room_name is required",
                 "contexts",
                 "COMPREHENSIVE METRIC ACTIVITY SUMMARY...",
                 "",
                 "Error generating active metrics summary: ${error.message}")
      [] handler = "getAkashProvidersDown" ->
           Shape("none", <<>>, "", "akash",
                 "AKASH PROVIDERS DOWN ALERT...",
                 "All Akash providers are currently operational - no down providers detected.",
                 "Error fetching down providers: ${error.message}")
      [] handler = "getAkashGpuIssues" ->
           Shape("none", <<>>, "", "akash",
                 "AKASH GPU ALLOCATION ISSUES...",
                 "No GPU allocation issues detected across Akash provider network.",
                 "Error fetching GPU issues: ${error.message}")
      [] handler = "getAkashCpuIssues" ->
           Shape("none", <<>>, "", "akash",
                 "AKASH CPU ALLOCATION ISSUES...",
                 "No CPU allocation issues detected across Akash provider network.",
                 "Error fetching CPU issues: ${error.message}")
      [] handler = "getAkashMemoryIssues" ->
           Shape("none", <<>>, "", "akash",
                 "AKASH MEMORY ALLOCATION ISSUES...",
                 "No memory allocation issues detected across Akash provider network.",
                 "Error fetching memory issues: ${error.message}")
      [] handler = "getAkashPartialFailures" ->
           Shape("none", <<>>, "", "akash",
                 "AKASH PARTIAL PROVIDER FAILURES...",
                 "No partial provider failures detected across Akash provider network.",
                 "Error fetching partial failures: ${error.message}")
      [] handler = "getAkashAllIssuesReport" ->
           Shape("none", <<>>, "", "report",
                 "===== INFRASTRUCTURE & PROVIDER COMPREHENSIVE ISSUES REPORT =====...",
                 "",
                 "Error generating comprehensive issues report: ${error.message}")
      [] handler = "searchWiki" ->
           Shape("unguarded", <<"query">>, "Error: query parameter is required",
                 "search",
                 "Found ${results.length} wiki page(s) containing \"${query}\":\n\n${JSON.stringify(searchResults, null, 2)}",
                 "No wiki pages found containing \"${query}\"",
                 "Error searching wiki: ${error.message}")
      [] handler = "getWikiPage" ->
           Shape("unguarded", <<"page_name">>,
                 "Error: page_name parameter is required", "page",
                 "Content from wiki page \"${page_name}\":\n\n${content}",
                 "Wiki page \"${page_name}\" not found. Available pages: ${pageList}",
                 "Error getting wiki page: ${error.message}")
      [] handler = "listRpcNodes" ->
           Shape("none", <<>>, "", "rpc",
                 "RPC Nodes Information:\n\n${JSON.stringify(summary, null, 2)}",
                 "",
                 "Error extracting RPC nodes: ${error.message}")
      [] OTHER ->
           Shape("none", <<>>, "", "list",
                 "Dynamically discovered wiki pages:...",
                 "Unable to fetch wiki pages dynamically. Common wiki pages to try:\n${FALLBACK_WIKI_PAGES.join(', ')}...",
                 "Error listing wiki pages: ${error.message}...")

\* the functions a handler enters on its way to its first request
CallChain(handler) ==
    CASE handler = "testNetworkMetricsActivity" ->
           <<handler, "testCategoryMetricsActivity", "getRoomContexts">>
      [] handler \in {"testCategoryMetricsActivity", "getActiveMetricsSummary"} ->
           <<handler, "getRoomContexts">>
      [] OTHER -> <<handler>>

\* const { query } = args of an absent args
DestructureError(field) ==
    ToolThrew("TypeError", "none",
              <<"Cannot destructure property '", field,
                "' of 'args' as it is undefined.">>)

ContextsParseError == "Could not parse contexts from response"

\* ---- the call-tool request handler of the server ----

\* a catch block that wraps every error, protocol errors included
CallToolCatchWrapAll(name, error) ==
    ToolThrew("McpError", "InternalError",
              <<"Error executing tool ", name, ": ", error.message>>)

\* catch (error): a McpError is thrown again as it is, any other error as
\* new McpError(ErrorCode.InternalError, `Error executing tool ${name}: ${errorMessage}`)
CallToolCatch(name, error) ==
    IF error.name = "McpError" THEN error
    ELSE ToolThrew("McpError", "InternalError",
                   <<"Error executing tool ", name, ": ", error.message>>)

\* try { return await handleToolCall(name, args) } catch (error) { ... }
CallToolRequestHandler(name, result) ==
    IF result.status = "threw" THEN CallToolCatch(name, result) ELSE result

\* handleToolCall has settled: the request handler returns or throws
CallToolReply ==
    /\ tpc = "done"
    /\ serverResult' = CallToolRequestHandler(toolName, toolResult)
    /\ tpc' = "replied"
    /\ UNCHANGED <<toolName, toolArgs, toolToken, handlerRun, toolRequests,
                   toolStage, toolResult>>

----------------------------------------------------------------------------
(* getAkashAllIssuesReport *)

\* most entries of an issue list of the provider API
MaxIssues == 1

\* the endpoints of the provider API the report asks, in the order of the
\* Promise.all
Endpoints ==
    << "/gpuissues", "/issues/res/cpu", "/issues/res/memory", "/providers/down",
       "/providers/partialfailures" >>
EndpointSet == {Endpoints[k] : k \in 1..Len(Endpoints)}

\* a body of the provider API: null, or an object whose issue field is
\* absent, an array of len entries, or a string of len characters
ProviderBody(isNull, has, isArray, len) ==
    [isNull |-> isNull, has |-> has, isArray |-> isArray, len |-> len]
ProviderBodies ==
    { ProviderBody(TRUE, FALSE, FALSE, 0),
      ProviderBody(FALSE, FALSE, FALSE, 0),
      ProviderBody(FALSE, TRUE, FALSE, 1) }
    \cup { ProviderBody(FALSE, TRUE, TRUE, n) : n \in 0..MaxIssues }
AkashReplies == CloudFailures \cup {CloudResolve(b) : b \in ProviderBodies}

\* makeAkashRequest: the body, or the error of the catch block
makeAkashRequest(r) ==
    IF r.kind = "reject"
    THEN [raised |-> TRUE,
          message |-> <<"Akash Provider API error: ",
                        JsString(OrElse(r.upstream, r.message))>>]
    ELSE [raised |-> FALSE, body |-> r.body]

\* what getNetDataAlarms() resolves with: the error summary, or the summary
\* of a fetch of at most one alarm-counter entry of the room "All nodes"
ReportRoomList == <<RoomEntry("r1", AllNodes)>>
NetdataSummaries ==
    { ErrorSummary(ConfigErrorMessage),
      AlarmSummary(<<>>, <<>>, <<>>) }
    \cup { AlarmSummary(<<e>>, RoomsWithAlarms(ReportRoomList, <<e>>), <<>>) :
             e \in {x \in RoomAlarmEntries : x.roomID = "r1"} }

\* a test that also takes an empty list for a list with issues
HasIssuesAnyLength(endpoint, body) ==
    /\ body.has
    /\ endpoint = "/gpuissues" => body.isArray

\* list && list.length > 0 (the section of the GPU issues also asks
\* Array.isArray(list))
HasIssues(endpoint, body) ==
    /\ body.has
    /\ endpoint = "/gpuissues" => body.isArray
    /\ body.len > 0

\* list?.length || 0
IssueCount(body) == IF body.has THEN body.len ELSE 0

\* the section of the infrastructure alerts: the error, the line of no
\* alerts, or the table
AlarmSection(netdata) ==
    IF netdata.hasError THEN "error"
    ELSE IF netdata.totals.warnings = 0 /\ netdata.totals.critical = 0
            /\ netdata.totals.unreachable = 0
    THEN "empty"
    ELSE "table"

\* a section of the provider API: its table, or its line of no issues
IssueSection(endpoint, body) ==
    IF HasIssues(endpoint, body) THEN "table" ELSE "empty"

\* the rows under the header of a table: one per entry of the mapped list
\* (netdataAlarms.roomsWithAlarms.map(...), list.map(...))
AlarmRows(netdata) ==
    IF AlarmSection(netdata) = "table" THEN Len(netdata.roomsWithAlarms) ELSE 0
IssueRows(endpoint, body) ==
    IF IssueSection(endpoint, body) = "table" THEN body.len ELSE 0

\* the TypeError the try block raises while it renders its sections in the
\* order of the report: the first body that is null has no property to read,
\* or the first list with entries that is no array has no map
RenderError(bodies) ==
    LET field(e) == CASE e = "/gpuissues" -> "gpu_issues"
                      [] e = "/providers/down" -> "down_providers"
                      [] e = "/providers/partialfailures" ->
                             "providers_with_partial_failures"
                      [] OTHER -> "nodes_with_issues"
        variable(e) == CASE e = "/gpuissues" -> "gpuIssues"
                         [] e = "/issues/res/cpu" -> "cpuIssues"
                         [] e = "/issues/res/memory" -> "memoryIssues"
                         [] e = "/providers/down" -> "downProviders"
                         [] OTHER -> "partialFailures"
        noMap(e) == /\ ~bodies[e].isNull
                    /\ e # "/gpuissues"
                    /\ HasIssues(e, bodies[e])
                    /\ ~bodies[e].isArray
        failing == {k \in 1..Len(Endpoints) :
                       bodies[Endpoints[k]].isNull \/ noMap(Endpoints[k])}
    IN  IF failing = {} THEN <<>>
        ELSE LET first == CHOOSE k \in failing : \A j \in failing : k <= j
                 e == Endpoints[first]
             IN  IF bodies[e].isNull
                 THEN <<"Cannot read properties of null (reading '", field(e), "')">>
                 ELSE <<variable(e), ".", field(e), ".map is not a function">>

RECURSIVE SumCounts(_, _)
SumCounts(bodies, endpoints) ==
    IF endpoints = <<>> THEN 0
    ELSE IssueCount(bodies[Head(endpoints)]) + SumCounts(bodies, Tail(endpoints))

\* totalInfrastructureIssues and totalAkashIssues
TotalInfrastructureIssues(netdata) ==
    netdata.totals.warnings + netdata.totals.critical + netdata.totals.unreachable
TotalAkashIssues(bodies) == SumCounts(bodies, Endpoints)

\* a total that leaves the provider issues out
TotalAllIssuesInfrastructureOnly(infrastructure, akash) == infrastructure

\* totalAllIssues
TotalAllIssues(infrastructure, akash) == infrastructure + akash

\* the three lines of OVERALL HEALTH STATUS (each without the mark it begins
\* with)
InfrastructureHealth(total) ==
    IF total = 0 THEN "All Infrastructure Operational"
    ELSE "Infrastructure Issues Detected"
ProviderNetworkHealth(total) ==
    IF total = 0 THEN "All Providers Operational" ELSE "Provider Issues Detected"
CombinedStatus(total) ==
    IF total = 0 THEN "ALL SYSTEMS OPERATIONAL"
    ELSE "ATTENTION REQUIRED - Issues Detected"

ReportTemplate == "===== INFRASTRUCTURE & PROVIDER COMPREHENSIVE ISSUES REPORT =====..."
ReportErrorTemplate == "Error generating comprehensive issues report: ${error.message}"

\* the report of the try block
Report(netdata, bodies) ==
    LET infrastructure == TotalInfrastructureIssues(netdata)
        akash == TotalAkashIssues(bodies)
        all == TotalAllIssues(infrastructure, akash)
    IN  Text(ReportTemplate,
             [alarms   |-> AlarmSection(netdata),
              alarmRows |-> AlarmRows(netdata),
              sections |-> [e \in EndpointSet |-> IssueSection(e, bodies[e])],
              rows     |-> [e \in EndpointSet |-> IssueRows(e, bodies[e])],
              totalInfrastructureIssues |-> infrastructure,
              counts   |-> [e \in EndpointSet |-> IssueCount(bodies[e])],
              totalAkashIssues |-> akash,
              totalAllIssues |-> all,
              infrastructureHealth  |-> InfrastructureHealth(infrastructure),
              providerNetworkHealth |-> ProviderNetworkHealth(akash),
              combinedStatus        |-> CombinedStatus(all)])

\* catch (error) { return the text of the error }
ReportCatch(message) ==
    ToolReturned(Envelope(Text(ReportErrorTemplate, <<message>>)))

ReportInit ==
    /\ repAlarms = NoFetch
    /\ repFetch = [e \in EndpointSet |-> NoFetch]
    /\ repResult = ToolPending
    /\ rpc = "start"

\* The Promise.all when a call of it has resolved: pending while a call is
\* pending; with all six resolved the try block goes on in the same step,
\* and the report is rendered and returned, or the catch block returns the
\* TypeError the rendering raised
ReportOutcome(alarms, fetch) ==
    IF alarms.state # "resolved" \/ \E e \in EndpointSet : fetch[e].state # "resolved"
    THEN ToolPending
    ELSE LET bodies == [e \in EndpointSet |-> fetch[e].body]
         IN  IF RenderError(bodies) # <<>>
             THEN ReportCatch(RenderError(bodies))
             ELSE ToolReturned(Envelope(Report(alarms.body, bodies)))

\* Promise.all([getNetDataAlarms(), makeAkashRequest(...) x 5]): the six
\* calls are started; alarms is the promise getNetDataAlarms() has returned
\* (resolved already when the call has ended before its first await)
ReportStart(alarms) ==
    /\ rpc = "start"
    /\ repAlarms' = alarms
    /\ repFetch' = [e \in EndpointSet |-> Pending]
    /\ rpc' = "fetching"
    /\ UNCHANGED repResult

\* getNetDataAlarms() resolves with the summary (it never rejects)
ReportAlarmsResolve(summary) ==
    /\ rpc = "fetching"
    /\ repAlarms = Pending
    /\ repAlarms' = Resolved(summary)
    /\ repResult' = ReportOutcome(repAlarms', repFetch)
    /\ rpc' = IF repResult'.status = "pending" THEN rpc ELSE "done"
    /\ UNCHANGED repFetch

\* getNetDataAlarms() resolves with one of the summaries explored
ReportAlarmsSettle == \E s \in NetdataSummaries : ReportAlarmsResolve(s)

\* a request of the provider API settles with one of the replies; a
\* rejection rejects the Promise.all, the catch block returns, and what the
\* other requests settle with is not looked at
ReportFetchSettle(replies) ==
    /\ rpc = "fetching"
    /\ \E e \in EndpointSet : \E r \in replies :
          /\ repFetch[e] = Pending
          /\ LET o == makeAkashRequest(r)
             IN  IF o.raised
                 THEN /\ repFetch' = [repFetch EXCEPT ![e] = Rejected(o.message)]
                      /\ repResult' = ReportCatch(o.message)
                      /\ rpc' = "done"
                 ELSE /\ repFetch' = [repFetch EXCEPT ![e] = Resolved(o.body)]
                      /\ repResult' = ReportOutcome(repAlarms, repFetch')
                      /\ rpc' = IF repResult'.status = "pending" THEN rpc ELSE "done"
    /\ UNCHANGED repAlarms

----------------------------------------------------------------------------
(* getActiveMetricsSummary: the loop over the categories *)

\* longest list of contexts the summary is made of
MaxSummaryLen == 2
\* largest sample_size, and largest sample_size below zero, explored
MaxSample == 2
MinSample == 1
\* (activeCount / tested * 100).toFixed(1), in tenths of a percent; 0 / 0
\* is NaN. toFixed gives the number of tenths nearest to the double, the
\* larger one of two that are as near.
ActiveRate(active, tested) ==
    IF tested = 0 THEN [nan |-> TRUE, tenths |-> 0]
    ELSE LET d == Gcd(active, tested)
             exact == (active * 2000 + tested) \div (2 * tested)
         IN  [nan |-> FALSE,
              tenths |-> IF (active \div d) \in TenthsBelowHalf(tested \div d)
                         THEN exact - 1 ELSE exact]

\* categoryResults[categoryName] of the try block and of the catch block
CategoryEntry(categoryName, available, res) ==
    [category       |-> categoryName,
     totalAvailable |-> available,
     tested         |-> res.summary.tested,
     active         |-> res.summary.activeCount,
     activeRate     |-> ActiveRate(res.summary.activeCount, res.summary.tested),
     hasError       |-> FALSE]
CategoryErrorEntry(categoryName) ==
    [category |-> categoryName, totalAvailable |-> 0, tested |-> 0, active |-> 0,
     activeRate |-> [nan |-> FALSE, tenths |-> 0], hasError |-> TRUE]

SummaryTemplate == "COMPREHENSIVE METRIC ACTIVITY SUMMARY..."

\* the report of the try block
SummaryReport(all, size, tested, active, breakdown) ==
    Text(SummaryTemplate,
         [sampleSize     |-> size,
          totalAvailable |-> Len(all),
          totalTested    |-> tested,
          totalActive    |-> active,
          breakdown      |-> breakdown])

\* the contexts, sample sizes and agent answers explored
SummaryIds ==
    { <<"n", "e", "t", ".", "e", "t", "h", "0">>,   \* net.eth0
      <<"s", "y", "s", "t", "e", "m", ".", "c", "p", "u">>,   \* system.cpu
      <<"n", "e", "t", "d", "a", "t", "a", ".", "n", "e", "t", "w", "o", "r", "k">>,   \* netdata.network
      <<"m", "e", "m">> }   \* mem
SampleArgs ==
    {NoSampleSize} \cup {SampleSizeOf(n) : n \in (0 - MinSample)..MaxSample}
SummaryReplies ==
    { Reject(TimeoutMessage),
      Resolve("array", <<>>, TRUE, <<"time", "value">>),
      Resolve("array", <<"p1">>, FALSE, <<>>) }

----------------------------------------------------------------------------
(* makeGitHubRequest and getAllWikiPages                                    *)
(* A path is the sequence of its characters.                                *)

\* most entries of the tree of the wiki repository
MaxTree == 2

DotMd == <<".", "m", "d">>

\* path.endsWith(suffix)
EndsWith(path, suffix) ==
    /\ Len(suffix) <= Len(path)
    /\ SubSeq(path, Len(path) - Len(suffix) + 1, Len(path)) = suffix

\* path.replace(pattern, ''): the first occurrence of the pattern is taken
\* out, wherever it is
RemoveFirst(path, pattern) ==
    LET at == {k \in 1..(Len(path) - Len(pattern) + 1) :
                  SubSeq(path, k, k + Len(pattern) - 1) = pattern}
    IN  IF at = {} THEN path
        ELSE LET k == CHOOSE x \in at : \A y \in at : x <= y
             IN  SubSeq(path, 1, k - 1) \o SubSeq(path, k + Len(pattern), Len(path))

\* what axios delivers for a request: a rejection with the status of the
\* response (0 without a response), the message of its body
\* (error.response?.data?.message, undefined when absent) and the transport
\* message (error.message), or a resolution with the body
GitHubReject(status, upstream, message) ==
    [kind |-> "reject", status |-> status, upstream |-> upstream,
     message |-> message]
GitHubResolve(body) == [kind |-> "resolve", body |-> body]

\* an entry of treeData.tree; the path may be absent
TreeItem(type, hasPath, path) == [type |-> type, hasPath |-> hasPath, path |-> path]
TreeItems ==
    { TreeItem("blob", TRUE, <<"H", "o", "m", "e", ".", "m", "d">>),       \* Home.md
      TreeItem("blob", TRUE, <<"a", ".", "m", "d", "x", ".", "m", "d">>),  \* a.mdx.md
      TreeItem("blob", TRUE, <<"i", ".", "p", "n", "g">>),                 \* i.png
      TreeItem("tree", TRUE, <<"d", ".", "m", "d">>),                      \* d.md
      TreeItem("blob", FALSE, <<>>) }

\* a body: null, or an object whose tree is absent, an array, or a value
\* that cannot be iterated
TreeBody(isNull, tree, list) == [isNull |-> isNull, tree |-> tree, list |-> list]
TreeBodies ==
    { TreeBody(TRUE, "absent", <<>>),
      TreeBody(FALSE, "absent", <<>>),
      TreeBody(FALSE, "notiterable", <<>>) }
    \cup { TreeBody(FALSE, "array", l) :
             l \in UNION {[1..n -> TreeItems] : n \in 0..MaxTree} }
GitHubReplies ==
    { GitHubReject(404, Str("Not Found"), Str("Request failed with status code 404")),
      GitHubReject(500, Undefined, Str("Request failed with status code 500")),
      GitHubReject(0, Undefined, Str("timeout of 5000ms exceeded")) }
    \cup { GitHubResolve(b) : b \in TreeBodies }

\* makeGitHubRequest after its test of the token: the body, null for a
\* response of status 404, or the error of the catch block
makeGitHubRequest(r) ==
    IF r.kind = "resolve" THEN [raised |-> FALSE, isNull |-> r.body.isNull, body |-> r.body]
    ELSE IF r.status = 404
    THEN [raised |-> FALSE, isNull |-> TRUE, body |-> TreeBody(TRUE, "absent", <<>>)]
    ELSE [raised |-> TRUE,
          message |-> <<"GitHub API error: ",
                        JsString(OrElse(r.upstream, r.message))>>]

\* for (const item of treeData.tree) { if (item.type === 'blob' &&
\* item.path.endsWith('.md')) allPages.push(item.path.replace('.md', '')) }:
\* the pages, or the TypeError of a blob without a path
RECURSIVE CollectPages(_)
CollectPages(list) ==
    IF list = <<>> THEN [raised |-> FALSE, pages |-> <<>>]
    ELSE LET item == Head(list)
             rest == CollectPages(Tail(list))
         IN  IF item.type = "blob" /\ ~item.hasPath
             THEN [raised |-> TRUE, pages |-> <<>>]
             ELSE IF rest.raised THEN rest
             ELSE IF item.type = "blob" /\ EndsWith(item.path, DotMd)
             THEN [raised |-> FALSE,
                   pages |-> <<RemoveFirst(item.path, DotMd)>> \o rest.pages]
             ELSE rest

\* the body of a try block of getAllWikiPages after its request: the list
\* it returns, or an exception
TreePages(o) ==
    IF o.raised THEN [raised |-> TRUE, pages |-> <<>>]
    ELSE IF o.isNull \/ o.body.tree = "absent" THEN [raised |-> FALSE, pages |-> <<>>]
    ELSE IF o.body.tree = "notiterable" THEN [raised |-> TRUE, pages |-> <<>>]
    ELSE CollectPages(o.body.list)

WikiPending == [status |-> "pending"]
WikiReturned(pages) == [status |-> "returned", value |-> pages]

\* the branch a failed try block goes on with
NextBranch(branch) == IF branch = "master" THEN "main" ELSE "none"

WikiInit ==
    /\ ghToken \in BOOLEAN
    /\ wikiBranch = "master"
    /\ wikiLog = <<>>
    /\ wikiNetCalls = 0
    /\ wikiResult = WikiPending
    /\ wpc = "request"

\* the entry of wikiLog of a try block that threw before its request
Unsent(branch) == [branch |-> branch, sent |-> FALSE, reply |-> NoReply]

\* The call of getAllWikiPages up to its first await. Without a token
\* makeGitHubRequest throws before any request in the try block of master
\* and again in that of main, and the function returns the empty list at
\* once; with a token the request of the master tree is sent.
WikiRequest ==
    /\ wpc = "request"
    /\ IF ~ghToken
       THEN /\ wikiLog' = wikiLog \o <<Unsent(wikiBranch), Unsent(NextBranch(wikiBranch))>>
            /\ wikiBranch' = NextBranch(wikiBranch)
            /\ wikiNetCalls' = wikiNetCalls
            /\ wikiResult' = WikiReturned(<<>>)
            /\ wpc' = "done"
       ELSE /\ wikiNetCalls' = wikiNetCalls + 1
            /\ wpc' = "await"
            /\ UNCHANGED <<wikiLog, wikiResult, wikiBranch>>
    /\ UNCHANGED ghToken

\* The request of the tree of a branch settles with one of the replies and
\* the try block of the branch runs to its end: it returns its list; or it
\* raises, and the catch block sends the request of the next branch in the
\* same step, or, with no branch left, returns the empty list.
WikiSettle(replies) ==
    /\ wpc = "await"
    /\ \E r \in replies :
          LET t == TreePages(makeGitHubRequest(r))
          IN  /\ wikiLog' = Append(wikiLog, [branch |-> wikiBranch, sent |-> TRUE,
                                               reply |-> r])
              /\ IF ~t.raised
                 THEN /\ wikiResult' = WikiReturned(t.pages)
                      /\ wpc' = "done"
                      /\ UNCHANGED <<wikiBranch, wikiNetCalls>>
                 ELSE IF NextBranch(wikiBranch) = "none"
                 THEN /\ wikiResult' = WikiReturned(<<>>)
                      /\ wpc' = "done"
                      /\ UNCHANGED <<wikiBranch, wikiNetCalls>>
                 ELSE /\ wikiResult' = wikiResult
                      /\ wpc' = "await"
                      /\ wikiBranch' = NextBranch(wikiBranch)
                      /\ wikiNetCalls' = wikiNetCalls + 1
    /\ UNCHANGED ghToken

----------------------------------------------------------------------------
(* The tool handlers: one call, from the entry of the handler to its return *)
(* A name or a text the code searches in is the sequence of its characters. *)

\* testMetricsInBatches(contexts, batchSize = 5)
DefaultBatchSize == 5

\* a step of a call up to its next await or its return: the outcome
\* (ToolPending while it awaits), the requests it has sent, by their target
\* ("cloud", "akash", "agent", "github" for the API of GitHub, "raw" for the
\* host of the wiki pages), and what it awaits
Step(result, sent, stage) == [outcome |-> result, sent |-> sent, stage |-> stage]
NoStage == [name |-> "none"]
Finished(text) == Step(ToolReturned(Envelope(text)), <<>>, NoStage)
Threw(error) == Step(error, <<>>, NoStage)
Awaiting(sent, stage) == Step(ToolPending, sent, stage)

\* what a call awaits: the reply to one request (kept is what the handler
\* holds from an earlier reply); the replies of the probes of a batch; a
\* timer; the reply to the request of a wiki page; the tree of the wiki;
\* the promises of the report
RequestStage(what, kept) == [name |-> "request", what |-> what, kept |-> kept]
ProbeStage(ctxs, idx, replies, res, sum) ==
    [name |-> "probe", ctxs |-> ctxs, i |-> idx, replies |-> replies,
     results |-> res, sum |-> sum]
TimerStage(what, probe) == [name |-> "timer", what |-> what, probe |-> probe]
PagesStage(what, pages, count, searched) ==
    [name |-> "pages", what |-> what, pages |-> pages, count |-> count,
     searched |-> searched]
TreeStage == [name |-> "tree"]
ReportStage == [name |-> "report"]

\* ---- the bodies of the replies ----

\* a JSON body: null, an object (with or without an array in its field
\* results), or an array
JsonNull == [kind |-> "null", list |-> <<>>, hasResults |-> FALSE, results |-> <<>>]
JsonObject == [kind |-> "object", list |-> <<>>, hasResults |-> FALSE, results |-> <<>>]
JsonResults(list) ==
    [kind |-> "object", list |-> <<>>, hasResults |-> TRUE, results |-> list]
JsonArray(list) ==
    [kind |-> "array", list |-> list, hasResults |-> FALSE, results |-> <<>>]

\* value.length of a body: the length of an array, undefined of an object
LengthOf(body) ==
    IF body.kind = "array" THEN Num(ToString(Len(body.list))) ELSE Undefined

\* what axios delivers for a request of a tool: a rejection with the status
\* of the response (0 without a response), or a resolution with the body;
\* the message of the body of a response is what the server sent, a string
\* or, here, an array
ToolFailures ==
    { GitHubReject(500, Undefined, Str("Request failed with status code 500")),
      GitHubReject(401, Str("Invalid token"), Str("Request failed with status code 401")),
      GitHubReject(400, Arr(<<Str("a"), Str("b")>>),
                   Str("Request failed with status code 400")),
      GitHubReject(0, Undefined, Str("timeout of 5000ms exceeded")) }

\* the contexts of a room
NetEth(k) == <<"n", "e", "t", ".", "e", "t", "h">> \o <<ToString(k)>>
DiskSda == <<"d", "i", "s", "k", ".", "s", "d", "a">>
SystemCpu == <<"s", "y", "s", "t", "e", "m", ".", "c", "p", "u">>
ContextsBodies ==
    { JsonNull, JsonObject, JsonResults(<<>>), JsonResults(<<DiskSda>>),
      JsonResults(<<NetEth(0), SystemCpu>>),
      JsonArray([k \in 1..(DefaultBatchSize + 1) |-> NetEth(k - 1)]) }

\* an entry of the room list: name may be absent
Room(hasName, name, node_count) ==
    [hasName |-> hasName, name |-> name, node_count |-> node_count]
ValdiSdgH100 == <<"v", "a", "l", "d", "i", "-", "s", "d", "g", "-", "h", "1", "0", "0">>
ColoHeNucs == <<"c", "o", "l", "o", "-", "h", "e", "-", "n", "u", "c", "s">>
EvergreenRtx4090 ==
    <<"E", "v", "e", "r", "g", "r", "e", "e", "n", "-", "R", "T", "X", "-", "4", "0", "9", "0">>
OverviewBodies ==
    { JsonNull, JsonObject, JsonArray(<<>>),
      JsonArray(<<Room(FALSE, <<>>, 1)>>),
      JsonArray(<<Room(TRUE, ColoHeNucs, 3), Room(TRUE, ValdiSdgH100, 8),
                  Room(TRUE, EvergreenRtx4090, 3)>>) }

\* the replies to the request a handler awaits
RequestReplies(what) ==
    CASE what \in {"spaces", "rooms"} ->
           ToolFailures \cup {GitHubResolve(b) : b \in OverviewBodies}
      [] what \in {"contexts", "axios"} ->
           ToolFailures \cup {GitHubResolve(b) : b \in ContextsBodies}
      [] what = "akash" -> AkashReplies
      [] OTHER ->
           ToolFailures
           \cup {GitHubResolve(b) : b \in {JsonNull, JsonObject, JsonArray(<<>>)}}

\* the answers of the agent to a probe
ToolAgentReplies == SummaryReplies

\* the content of a wiki page
RpcList == <<"R", "P", "C", " ", "l", "i", "s", "t">>
Welcome == <<"w", "e", "l", "c", "o", "m", "e">>
PageReplies ==
    { GitHubReject(404, Undefined, Str("Request failed with status code 404")),
      GitHubReject(500, Undefined, Str("Request failed with status code 500")),
      GitHubResolve(<<>>), GitHubResolve(Welcome), GitHubResolve(RpcList) }

\* the replies to the request of a tree of the wiki
ToolTreeReplies ==
    { GitHubReject(404, Str("Not Found"), Str("Request failed with status code 404")),
      GitHubReject(500, Undefined, Str("Request failed with status code 500")),
      GitHubResolve(TreeBody(FALSE, "array", <<>>)),
      GitHubResolve(TreeBody(FALSE, "array",
          << TreeItem("blob", TRUE, <<"H", "o", "m", "e", ".", "m", "d">>),
             TreeItem("blob", TRUE, <<"d", "o", "c", "s", "/", "R", "P", "C", "-",
                                      "N", "o", "d", "e", "s", ".", "m", "d">>),
             TreeItem("blob", TRUE, <<"i", ".", "p", "n", "g">>) >>)) }

\* the replies to the requests of getNetDataAlarms inside the report
ToolAlarmsReplies ==
    { CloudReject(Undefined, Str("Request failed with status code 500")),
      CloudResolve([isNull |-> FALSE, hasResults |-> FALSE, results |-> <<>>]),
      CloudResolve([isNull |-> FALSE, hasResults |-> TRUE, results |->
          <<[roomID |-> "r1", hasCounter |-> TRUE, warning |-> 0, critical |-> 2,
             unreachableCount |-> 1]>>]) }
ToolRoomsReplies ==
    { CloudReject(Undefined, Str("Request failed with status code 500")),
      CloudResolve([isNull |-> FALSE, isArray |-> TRUE,
                    list |-> <<RoomEntry("r1", AllNodes)>>]) }
ToolNodesReplies ==
    { CloudReject(Undefined, Str("Request failed with status code 500")),
      CloudResolve([isNull |-> FALSE, isArray |-> TRUE,
                    list |-> <<NodeEntry("n1", TRUE, 1)>>]) }
ToolAkashReplies ==
    { CloudReject(Undefined, Str("Request failed with status code 500")),
      CloudResolve(ProviderBody(FALSE, FALSE, FALSE, 0)),
      CloudResolve(ProviderBody(FALSE, TRUE, TRUE, 1)) }

\* ---- strings ----

\* String.prototype.toLowerCase
LowerChar(c) ==
    IF \E k \in 1..Len(UpperLetters) : UpperLetters[k] = c
    THEN LowerLetters[CHOOSE k \in 1..Len(UpperLetters) : UpperLetters[k] = c]
    ELSE c
ToLowerCase(str) == [k \in 1..Len(str) |-> LowerChar(str[k])]

\* str.includes(part)
StringIncludes(str, part) ==
    \E k \in 1..(Len(str) - Len(part) + 1) : SubSeq(str, k, k + Len(part) - 1) = part

\* the characters of the query strings explored
Chars(s) ==
    CASE s = "rpc" -> <<"r", "p", "c">>
      [] s = "List" -> <<"L", "i", "s", "t">>
      [] OTHER -> <<>>

\* error.message of an error filterContextsByCategory throws
FilterErrorMessage(m) ==
    IF m.text = "Unknown category"
    THEN <<"Unknown category: ", m.category, ". Available: ">> \o m.available
    ELSE <<m.text>>

\* ---- the handlers of the NetData service ----

\* error.message of an error raised in the try block of a handler
ErrorMessage(text) == <<text>>

\* the catch block of a handler: the text of the error
HandlerCatch(handler, message) ==
    Text(HandlerShape(handler).errorTemplate, <<message>>)

\* the room lookup of getRoomContexts and getRoomNodes up to the request:
\* the text the function returns, or send when the request goes out
RoomStage(handler, room_name, token) ==
    LET roomId == RoomIdLookup(JsString(room_name))
        o == makeCloudRequest(token, CloudResolve(<<>>))
    IN  IF ~Truthy(room_name)
        THEN [send |-> FALSE, text |-> Text(RoomNameRequired, <<>>)]
        ELSE IF ~Truthy(roomId)
        THEN [send |-> FALSE,
              text |-> Text(NotFoundTemplate, <<JsString(room_name), RoomNames>>)]
        ELSE IF o.raised
        THEN [send |-> FALSE, text |-> HandlerCatch(handler, o.message)]
        ELSE [send |-> TRUE, text |-> Text("", <<>>)]

\* getRoomContexts from the reply to its request to its return
\* (contexts = contextsData.results || contextsData)
RoomContextsReply(room_name, r) ==
    LET o == makeCloudRequest(TRUE, r)
    IN  IF o.raised THEN HandlerCatch("getRoomContexts", o.message)
        ELSE IF o.body.kind = "null"
        THEN HandlerCatch("getRoomContexts",
                 ErrorMessage("Cannot read properties of null (reading 'results')"))
        ELSE LET ctxs == IF o.body.hasResults THEN JsonArray(o.body.results)
                         ELSE o.body
             IN  Text(HandlerShape("getRoomContexts").okTemplate,
                      <<JsString(room_name), JsString(LengthOf(ctxs)), ctxs>>)

\* getRoomNodes from the reply to its request to its return
RoomNodesReply(room_name, r) ==
    LET o == makeCloudRequest(TRUE, r)
    IN  IF o.raised THEN HandlerCatch("getRoomNodes", o.message)
        ELSE IF o.body.kind = "null"
        THEN HandlerCatch("getRoomNodes",
                 ErrorMessage("Cannot read properties of null (reading 'length')"))
        ELSE Text(HandlerShape("getRoomNodes").okTemplate,
                  <<JsString(room_name), JsString(LengthOf(o.body)), o.body>>)

\* contextsText.match(/\[(.*)\]/s) and JSON.parse('[' + match[1] + ']') on a
\* text of getRoomContexts. Of the texts it returns for the room names and
\* replies explored, only the text of its try block with an array of
\* contexts holds a bracket; there the match runs from the bracket that
\* opens the array to the one that closes it, and the parse gives the array
\* of strings back.
ParseContexts(text) ==
    IF /\ text.template = HandlerShape("getRoomContexts").okTemplate
       /\ text.values[3].kind = "array"
    THEN [match |-> TRUE, list |-> text.values[3].list]
    ELSE [match |-> FALSE, list |-> <<>>]

\* the category a handler filters by
CategoryOf(handler, args) ==
    IF handler = "testNetworkMetricsActivity" THEN Str("network")
    ELSE GuardedField(args, "category")

\* const { room_name, sample_size = 10 } = args || {}
SampleArg(args) == IF args.present THEN args.sample_size ELSE NoSampleSize

\* the catch block of testCategoryMetricsActivity
AnalysisCatch(handler, args, message) ==
    Finished(Text(AnalysisErrorTemplate,
                  <<JsString(CategoryOf(handler, args)), message>>))

\* the report of testCategoryMetricsActivity
AnalysisReport(handler, args, res) ==
    Text(AnalysisTemplate,
         [category |-> JsString(CategoryOf(handler, args)),
          room_name |-> JsString(GuardedField(args, "room_name")),
          summary |-> res.summary,
          active |-> res.active, inactive |-> res.inactive, errors |-> res.errors])

\* the running state of the loop of getActiveMetricsSummary
NoSum == [all |-> <<>>, idx |-> 0, available |-> 0, entries |-> <<>>,
          totalActive |-> 0, totalTested |-> 0]

\* testMetricsInBatches has returned res: testCategoryMetricsActivity returns
\* its report; getActiveMetricsSummary writes the entry of the category, adds
\* to its totals and awaits the timer of the rate limit
ProbesDone(handler, args, stage, res) ==
    IF handler = "getActiveMetricsSummary"
    THEN LET sum == stage.sum
             entry == CategoryEntry(CategoryNames[sum.idx], sum.available, res)
         IN  Awaiting(<<>>,
                TimerStage("delay",
                   [stage EXCEPT !.results = res,
                                 !.sum.entries = Append(@, entry),
                                 !.sum.totalActive = @ + res.summary.activeCount,
                                 !.sum.totalTested = @ + res.summary.tested]))
    ELSE Finished(AnalysisReport(handler, args, res))

\* the for loop of testMetricsInBatches at its test, with the index idx: the
\* requests of the next batch are sent, or the function returns
BatchLoop(handler, args, stage, idx, res) ==
    IF LoopCond(idx, Len(stage.ctxs))
    THEN LET slice == Slice(stage.ctxs, idx, BatchEnd(idx, DefaultBatchSize))
         IN  Awaiting([k \in 1..Len(slice) |-> "agent"],
                      ProbeStage(stage.ctxs, idx,
                                 [k \in 1..Len(slice) |-> NoReply], res, stage.sum))
    ELSE ProbesDone(handler, args, stage, res)

\* testMetricsInBatches(ctxs) is called
StartProbes(handler, args, ctxs, sum) ==
    BatchLoop(handler, args, ProbeStage(ctxs, 0, <<>>, InitResults(ctxs), sum), 0,
              InitResults(ctxs))

\* the probe of position p of the batch is answered: with a probe pending
\* the Promise.all stays pending; with the last one the results of the
\* slice are categorized in the order of the batch, and the pause between
\* batches is awaited, or the loop goes on
ProbeReply(handler, args, stage, p, r) ==
    LET replies == [stage.replies EXCEPT ![p] = r]
    IN  IF \E q \in DOMAIN replies : replies[q].kind = "none"
        THEN Awaiting(<<>>, [stage EXCEPT !.replies = replies])
        ELSE LET slice == Slice(stage.ctxs, stage.i,
                                BatchEnd(stage.i, DefaultBatchSize))
                 batchResults == [k \in 1..Len(slice) |->
                                     queryAgentMetric(slice[k], replies[k]).value]
                 res == Categorize(stage.results, batchResults)
                 settled == [stage EXCEPT !.replies = replies, !.results = res]
             IN  IF PauseNeeded(stage.i, DefaultBatchSize, Len(stage.ctxs))
                 THEN Awaiting(<<>>, TimerStage("pause", settled))
                 ELSE BatchLoop(handler, args, settled,
                                BatchEnd(stage.i, DefaultBatchSize), res)

\* for (const [categoryName, prefixes] of Object.entries(METRIC_CATEGORIES))
\* from the category of index idx to the next await (the probes of the
\* sample of a category that has contexts) or to the return of the report
RECURSIVE SummaryLoop(_, _, _)
SummaryLoop(args, sum, idx) ==
    IF idx > Len(CategoryNames)
    THEN Finished(SummaryReport(sum.all, SampleSize(SampleArg(args)),
                                sum.totalTested, sum.totalActive, sum.entries))
    ELSE LET categoryName == CategoryNames[idx]
             fc == filterContextsByCategory(sum.all, categoryName)
         IN  IF fc.status = "threw"
             THEN SummaryLoop(args,
                              [sum EXCEPT !.entries =
                                  Append(@, CategoryErrorEntry(categoryName))],
                              idx + 1)
             ELSE IF Len(fc.value) > 0
             THEN StartProbes("getActiveMetricsSummary", args,
                              Slice(fc.value, 0, SampleSize(SampleArg(args))),
                              [sum EXCEPT !.idx = idx, !.available = Len(fc.value)])
             ELSE SummaryLoop(args, sum, idx + 1)

\* a handler that calls getRoomContexts, from the text it returns: the text
\* is parsed and the contexts are filtered and probed
AfterContexts(handler, args, text) ==
    LET parsed == ParseContexts(text)
        room == JsString(GuardedField(args, "room_name"))
    IN  IF handler = "getActiveMetricsSummary"
        THEN IF ~parsed.match
             THEN Finished(HandlerCatch(handler, ErrorMessage(ContextsParseError)))
             ELSE SummaryLoop(args, [NoSum EXCEPT !.all = parsed.list], 1)
        ELSE IF ~parsed.match
        THEN AnalysisCatch(handler, args, ErrorMessage(ContextsParseError))
        ELSE LET category == CategoryOf(handler, args)
                 fc == filterContextsByCategory(parsed.list, JsString(category))
             IN  IF fc.status = "threw"
                 THEN AnalysisCatch(handler, args, FilterErrorMessage(fc.message))
                 ELSE IF Len(fc.value) = 0
                 THEN Finished(Text(NoContextsTemplate, <<JsString(category), room>>))
                 ELSE StartProbes(handler, args, fc.value, NoSum)

\* a timer has fired: the loop of testMetricsInBatches, or that of
\* getActiveMetricsSummary, goes on
TimerFired(handler, args, stage) ==
    IF stage.what = "pause"
    THEN BatchLoop(handler, args, stage.probe,
                   BatchEnd(stage.probe.i, DefaultBatchSize), stage.probe.results)
    ELSE SummaryLoop(args, stage.probe.sum, stage.probe.sum.idx + 1)

\* room.name.toLowerCase().includes(part) of an entry that has a name
NameIncludes(room, part) == StringIncludes(ToLowerCase(room.name), part)
CountRooms(list, part) ==
    Len(SelectSeq(list, LAMBDA room : NameIncludes(room, part)))

\* list.reduce((sum, room) => sum + room.node_count, 0)
RECURSIVE SumNodes(_)
SumNodes(list) ==
    IF list = <<>> THEN 0 ELSE Head(list).node_count + SumNodes(Tail(list))

\* list.sort((a, b) => b.node_count - a.node_count): the larger room first,
\* rooms of one size in the order of the list
RECURSIVE SortBySize(_)
SortBySize(list) ==
    IF list = <<>> THEN <<>>
    ELSE LET rest == SortBySize(Tail(list))
             before == {k \in 1..Len(rest) :
                           \A j \in 1..k : rest[j].node_count > Head(list).node_count}
         IN  SubSeq(rest, 1, Cardinality(before)) \o <<Head(list)>>
             \o SubSeq(rest, Cardinality(before) + 1, Len(rest))

\* Math.round((gpuNodes / totalNodes) * 100): 0 / 0 is NaN; Math.round gives
\* the integer nearest to the double, the larger one of two that are as near
ComputePercentage(gpuNodes, totalNodes) ==
    IF totalNodes = 0 THEN Num("NaN")
    ELSE LET d == Gcd(gpuNodes, totalNodes)
             exact == (gpuNodes * 200 + totalNodes) \div (2 * totalNodes)
         IN  Num(ToString(IF <<gpuNodes \div d, totalNodes \div d>> \in PercentBelowHalf
                          THEN exact - 1 ELSE exact))

H100 == <<"h", "1", "0", "0">>
V100 == <<"v", "1", "0", "0">>
Rtx4090 == <<"4", "0", "9", "0">>

\* the try block of getInfrastructureOverview after its two requests
Analysis(spaces, rooms) ==
    IF rooms.kind = "null"
    THEN HandlerCatch("getInfrastructureOverview",
             ErrorMessage("Cannot read properties of null (reading 'filter')"))
    ELSE IF rooms.kind # "array"
    THEN HandlerCatch("getInfrastructureOverview",
             ErrorMessage("roomsData.filter is not a function"))
    ELSE IF \E k \in 1..Len(rooms.list) : ~rooms.list[k].hasName
    THEN HandlerCatch("getInfrastructureOverview",
             ErrorMessage("Cannot read properties of undefined (reading 'toLowerCase')"))
    ELSE IF spaces.kind = "null"
    THEN HandlerCatch("getInfrastructureOverview",
             ErrorMessage("Cannot read properties of null (reading 'length')"))
    ELSE LET gpuRooms == SelectSeq(rooms.list,
                            LAMBDA room : \/ NameIncludes(room, H100)
                                          \/ NameIncludes(room, V100)
                                          \/ NameIncludes(room, Rtx4090))
         IN  Text(HandlerShape("getInfrastructureOverview").okTemplate,
                  [total_spaces |-> LengthOf(spaces),
                   total_rooms |-> Len(rooms.list),
                   total_nodes |-> SumNodes(rooms.list),
                   gpu_focused_rooms |-> Len(gpuRooms),
                   gpu_nodes |-> SumNodes(gpuRooms),
                   compute_percentage |->
                       ComputePercentage(SumNodes(gpuRooms), SumNodes(rooms.list)),
                   h100_rooms |-> CountRooms(gpuRooms, H100),
                   v100_rooms |-> CountRooms(gpuRooms, V100),
                   rtx4090_rooms |-> CountRooms(gpuRooms, Rtx4090),
                   valdi |-> CountRooms(rooms.list, <<"v", "a", "l", "d", "i">>),
                   coreweave |->
                       CountRooms(rooms.list,
                                  <<"c", "o", "r", "e", "w", "e", "a", "v", "e">>),
                   nebulablock |->
                       CountRooms(rooms.list,
                                  <<"n", "e", "b", "u", "l", "a", "b", "l", "o", "c", "k">>),
                   colo |-> CountRooms(rooms.list, <<"c", "o", "l", "o">>),
                   rooms_by_size |-> SortBySize(rooms.list)])

\* the catch block of testDirectRoomContexts:
\* error.response?.status || error.message
DirectCatch(token, r) ==
    Text(HandlerShape("testDirectRoomContexts").errorTemplate,
         <<token, IF r.status # 0 THEN ToString(r.status) ELSE JsString(r.message)>>)

\* testDirectRoomContexts from the reply to its request to its return
DirectReply(token, r) ==
    IF r.kind = "reject" THEN DirectCatch(token, r)
    ELSE IF r.body.kind = "null"
    THEN DirectCatch(token,
             GitHubReject(0, Undefined,
                 Str("Cannot read properties of null (reading 'results')")))
    ELSE Text(HandlerShape("testDirectRoomContexts").okTemplate,
              <<token, IF r.body.hasResults
                       THEN ToString(Len(r.body.results)) ELSE "unknown">>)

\* ---- the handlers of the Akash service that ask one endpoint ----

\* the endpoint a handler asks, the variable it keeps the body in and the
\* field it reads
AkashSource(handler) ==
    CASE handler = "getAkashProvidersDown" ->
           [endpoint |-> "/providers/down", variable |-> "downProviders",
            field |-> "down_providers"]
      [] handler = "getAkashGpuIssues" ->
           [endpoint |-> "/gpuissues", variable |-> "gpuIssues",
            field |-> "gpu_issues"]
      [] handler = "getAkashCpuIssues" ->
           [endpoint |-> "/issues/res/cpu", variable |-> "cpuIssues",
            field |-> "nodes_with_issues"]
      [] handler = "getAkashMemoryIssues" ->
           [endpoint |-> "/issues/res/memory", variable |-> "memoryIssues",
            field |-> "nodes_with_issues"]
      [] OTHER ->
           [endpoint |-> "/providers/partialfailures", variable |-> "partialFailures",
            field |-> "providers_with_partial_failures"]

\* the TypeError of reading the field of a null body
NullBodyError(handler) ==
    IF handler = "getAkashGpuIssues"
    THEN <<"Cannot use 'in' operator to search for 'gpu_issues' in null">>
    ELSE <<"Cannot read properties of null (reading '", AkashSource(handler).field,
           "')">>

\* a handler from the reply to its request to its return
AkashReply(handler, r) ==
    LET o == makeAkashRequest(r)
        s == AkashSource(handler)
        h == HandlerShape(handler)
    IN  IF o.raised THEN HandlerCatch(handler, o.message)
        ELSE IF o.body.isNull THEN HandlerCatch(handler, NullBodyError(handler))
        ELSE IF ~HasIssues(s.endpoint, o.body) THEN Text(h.otherTemplate, <<>>)
        ELSE IF ~o.body.isArray
        THEN HandlerCatch(handler,
                          <<s.variable, ".", s.field, ".map is not a function">>)
        ELSE Text(h.okTemplate, <<o.body.len>>)

\* ---- a handler from its entry to its first await ----

\* the test of the arguments: the TypeError of destructuring absent
\* arguments, the text of a required argument that is missing, or nothing
ArgsCheck(handler, args) ==
    LET h == HandlerShape(handler)
    IN  IF h.destructure = "unguarded" /\ ~args.present
        THEN [stops |-> TRUE, step |-> Threw(DestructureError(h.required[1]))]
        ELSE IF \E k \in 1..Len(h.required) :
                   ~Truthy(GuardedField(args, h.required[k]))
        THEN [stops |-> TRUE, step |-> Finished(Text(h.requiredText, <<>>))]
        ELSE [stops |-> FALSE, step |-> Awaiting(<<>>, NoStage)]

\* a handler of the NetData service, or one of the Akash service that asks
\* one endpoint, after the test of its arguments
HandlerEntry(handler, args, token) ==
    LET h == HandlerShape(handler)
        room_name == GuardedField(args, "room_name")
        o == makeCloudRequest(token, CloudResolve(<<>>))
    IN  CASE handler = "testRoomParameter" ->
               Finished(Text(h.okTemplate,
                             <<JsString(room_name),
                               OrElse(RoomIdLookup(JsString(room_name)),
                                      Str("Not found")),
                               token>>))
          [] handler = "debugApiCall" -> Finished(Text(h.okTemplate, <<token>>))
          [] h.upstream = "room" ->
               LET s == RoomStage(handler, room_name, token)
               IN  IF s.send
                   THEN Awaiting(<<"cloud">>,
                                 RequestStage(IF handler = "getRoomContexts"
                                              THEN "contexts" ELSE "nodes", <<>>))
                   ELSE Finished(s.text)
          [] h.upstream = "contexts" ->
               LET s == RoomStage("getRoomContexts", room_name, token)
               IN  IF s.send THEN Awaiting(<<"cloud">>, RequestStage("contexts", <<>>))
                   ELSE AfterContexts(handler, args, s.text)
          [] h.upstream = "axios" -> Awaiting(<<"cloud">>, RequestStage("axios", <<>>))
          [] h.upstream = "akash" -> Awaiting(<<"akash">>, RequestStage("akash", <<>>))
          [] h.upstream = "overview" ->
               IF o.raised THEN Finished(HandlerCatch(handler, o.message))
               ELSE Awaiting(<<"cloud">>, RequestStage("spaces", <<>>))
          [] OTHER ->
               IF o.raised THEN Finished(HandlerCatch(handler, o.message))
               ELSE Awaiting(<<"cloud">>, RequestStage("cloud", <<>>))

\* a handler from the reply to the request it awaits to its next await or
\* its return
RequestReply(handler, args, token, stage, r) ==
    LET room_name == GuardedField(args, "room_name")
        o == makeCloudRequest(token, r)
    IN  CASE stage.what = "spaces" ->
               IF o.raised THEN Finished(HandlerCatch(handler, o.message))
               ELSE Awaiting(<<"cloud">>, RequestStage("rooms", o.body))
          [] stage.what = "rooms" ->
               IF o.raised THEN Finished(HandlerCatch(handler, o.message))
               ELSE Finished(Analysis(stage.kept, o.body))
          [] stage.what = "contexts" ->
               IF handler = "getRoomContexts"
               THEN Finished(RoomContextsReply(room_name, r))
               ELSE AfterContexts(handler, args, RoomContextsReply(room_name, r))
          [] stage.what = "nodes" -> Finished(RoomNodesReply(room_name, r))
          [] stage.what = "axios" -> Finished(DirectReply(token, r))
          [] stage.what = "akash" -> Finished(AkashReply(handler, r))
          [] OTHER ->
               IF o.raised THEN Finished(HandlerCatch(handler, o.message))
               ELSE Finished(Text(HandlerShape(handler).okTemplate, <<o.body>>))

\* ---- the handlers of the GitHub service ----

\* the page names the handlers fall back to when no page is discovered
FALLBACK_WIKI_PAGES ==
    << <<"H", "o", "m", "e">>,   \* Home
       <<"O", "v", "e", "r", "v", "i", "e", "w">>,   \* Overview
       <<"I", "n", "d", "e", "x">>,   \* Index
       <<"R", "E", "A", "D", "M", "E">>,   \* README
       <<"R", "P", "C", "-", "N", "o", "d", "e", "s">>,   \* RPC-Nodes
       <<"R", "P", "C", "_", "N", "o", "d", "e", "s">>,   \* RPC_Nodes
       <<"R", "P", "C">>,   \* RPC
       <<"N", "o", "d", "e", "s">>,   \* Nodes
       <<"I", "n", "f", "r", "a", "s", "t", "r", "u", "c", "t", "u", "r", "e">>,   \* Infrastructure
       <<"S", "e", "r", "v", "e", "r", "s">>,   \* Servers
       <<"P", "r", "o", "v", "i", "d", "e", "r", "s">>,   \* Providers
       <<"N", "e", "t", "w", "o", "r", "k">>,   \* Network
       <<"D", "e", "p", "l", "o", "y", "m", "e", "n", "t">>,   \* Deployment
       <<"C", "o", "n", "f", "i", "g", "u", "r", "a", "t", "i", "o", "n">>,   \* Configuration
       <<"M", "o", "n", "i", "t", "o", "r", "i", "n", "g">>,   \* Monitoring
       <<"O", "p", "e", "r", "a", "t", "i", "o", "n", "s">>,   \* Operations
       <<"M", "a", "i", "n", "t", "e", "n", "a", "n", "c", "e">>,   \* Maintenance
       <<"D", "e", "v", "O", "p", "s", "-", "P", "h", "o", "n", "e", "-", "N", "u", "m", "b", "e", "r", "s">>,   \* DevOps-Phone-Numbers
       <<"C", "o", "n", "t", "a", "c", "t">>,   \* Contact
       <<"E", "n", "g", "i", "n", "e", "e", "r", "s">> >>   \* Engineers
\* the pages extractRPCNodes falls back to
RpcFallbackPages ==
    << <<"R", "P", "C", "-", "N", "o", "d", "e", "s">>,
       <<"R", "P", "C", "_", "N", "o", "d", "e", "s">>,
       <<"R", "P", "C">>, <<"H", "o", "m", "e">>,
       <<"O", "v", "e", "r", "v", "i", "e", "w">> >>
\* the page list getWikiPage and getWikiPagesList name when none is found
DefaultPageList == "Home, Overview, DevOps-Phone-Numbers"

\* page.toLowerCase().includes('rpc') || page.toLowerCase().includes('node')
\* || page === 'Home' || page === 'Overview'
IsRpcPage(page) ==
    \/ StringIncludes(ToLowerCase(page), <<"r", "p", "c">>)
    \/ StringIncludes(ToLowerCase(page), <<"n", "o", "d", "e">>)
    \/ page = <<"H", "o", "m", "e">>
    \/ page = <<"O", "v", "e", "r", "v", "i", "e", "w">>

\* page.includes('/')
IsSubPage(page) == StringIncludes(page, <<"/">>)

\* getWikiPageContent: the content, null for a response of status 404, or
\* the error of the catch block
getWikiPageContent(r) ==
    IF r.kind = "resolve" THEN [raised |-> FALSE, isNull |-> FALSE, content |-> r.body]
    ELSE IF r.status = 404 THEN [raised |-> FALSE, isNull |-> TRUE, content |-> <<>>]
    ELSE [raised |-> TRUE,
          message |-> <<"Failed to fetch wiki page: ", JsString(r.message)>>]

\* !content: null, or the empty string
NoContent(c) == c.isNull \/ c.content = <<>>

\* the end of searchWiki: the text of no page found, or that of the results
SearchReturn(args, count) ==
    LET h == HandlerShape("searchWiki")
        query == JsString(GuardedField(args, "query"))
    IN  IF count = 0 THEN Finished(Text(h.otherTemplate, <<query>>))
        ELSE Finished(Text(h.okTemplate, <<ToString(count), query>>))

\* the end of listRpcNodes: pages_searched is Object.keys(rpcInfo.raw_content)
RpcReturn(searched) ==
    Finished(Text(HandlerShape("listRpcNodes").okTemplate,
                  [pages_searched |-> searched]))

\* the loop over the pages at its test: the request of the next page is
\* sent, or the handler returns
PagesLoop(args, what, pages, count, searched) ==
    IF pages # <<>>
    THEN Awaiting(<<"raw">>, PagesStage(what, pages, count, searched))
    ELSE IF what = "search" THEN SearchReturn(args, count)
    ELSE RpcReturn(searched)

\* a handler from the list getAllWikiPages has returned to its next await or
\* its return
AfterPages(handler, args, pages) ==
    LET h == HandlerShape(handler)
    IN  CASE handler = "getWikiPagesList" ->
               IF Len(pages) = 0
               THEN Finished(Text(h.otherTemplate, <<FALLBACK_WIKI_PAGES>>))
               ELSE Finished(Text(h.okTemplate,
                        [rootPages |-> SelectSeq(pages, LAMBDA p : ~IsSubPage(p)),
                         subPages |-> SelectSeq(pages, IsSubPage),
                         total |-> Len(pages)]))
          [] handler = "getWikiPage" ->
               Finished(Text(h.otherTemplate,
                             <<JsString(GuardedField(args, "page_name")),
                               IF Len(pages) > 0 THEN Obj(pages)
                               ELSE Str(DefaultPageList)>>))
          [] handler = "searchWiki" ->
               PagesLoop(args, "search",
                         IF Len(pages) = 0 THEN FALLBACK_WIKI_PAGES ELSE pages,
                         0, <<>>)
          [] OTHER ->
               PagesLoop(args, "rpc",
                         SelectSeq(IF Len(pages) = 0 THEN RpcFallbackPages ELSE pages,
                                   IsRpcPage),
                         0, <<>>)

\* searchWikiContent and extractRPCNodes, the reply to the request of the
\* first of the pages: a page that cannot be read is skipped; a page whose
\* content holds the search term is counted; a page with content is noted
\* as searched; the loop goes on with the next page
PageReply(args, stage, r) ==
    LET c == getWikiPageContent(r)
        page == Head(stage.pages)
        term == Chars(JsString(GuardedField(args, "query")))
        hit == /\ ~c.raised
               /\ ~NoContent(c)
               /\ StringIncludes(ToLowerCase(c.content), ToLowerCase(term))
        kept == /\ ~c.raised
                /\ ~NoContent(c)
                /\ ~\E k \in 1..Len(stage.searched) : stage.searched[k] = page
    IN  IF stage.what = "search"
        THEN PagesLoop(args, "search", Tail(stage.pages),
                       stage.count + (IF hit THEN 1 ELSE 0), <<>>)
        ELSE PagesLoop(args, "rpc", Tail(stage.pages), 0,
                       IF kept THEN Append(stage.searched, page) ELSE stage.searched)

\* getWikiPage, the reply to the request of its page: the content, the
\* error, or, without content, the call of getAllWikiPages
WikiPageReply(args, r) ==
    LET c == getWikiPageContent(r)
        h == HandlerShape("getWikiPage")
    IN  IF c.raised THEN [pages |-> FALSE, step |-> Finished(HandlerCatch("getWikiPage", c.message))]
        ELSE IF NoContent(c) THEN [pages |-> TRUE, step |-> Awaiting(<<>>, NoStage)]
        ELSE [pages |-> FALSE,
              step |-> Finished(Text(h.okTemplate,
                                     <<JsString(GuardedField(args, "page_name")),
                                       c.content>>))]

\* ---- one call of handleToolCall ----

\* the names and arguments explored
ToolNameValues ==
    {NetDataToolNames[k] : k \in 1..Len(NetDataToolNames)}
    \cup {AkashToolNames[k] : k \in 1..Len(AkashToolNames)}
    \cup {GitHubToolNames[k] : k \in 1..Len(GitHubToolNames)}
    \cup {"nope", "", "constructor", "Get_Space_Info", "getSpaceInfo"}
RoomNameValues ==
    {Undefined}
    \cup {Str(r) : r \in {"", "all-nodes", "nope", "constructor", "ALL-NODES"}}
ArgValues ==
    {MissingArgs}
    \cup {Args(r, c, Undefined, Undefined) :
            r \in RoomNameValues, c \in {Undefined, Str("network"), Str("gpu")}}
    \cup {[Args(Str("all-nodes"), Undefined, Undefined, Undefined)
             EXCEPT !.sample_size = SampleSizeOf(1)]}
    \cup {Args(Undefined, Undefined, Str(q), Undefined) : q \in {"", "rpc", "List"}}
    \cup {Args(Undefined, Undefined, Undefined, Str(p)) : p \in {"", "Home"}}

\* the arguments the handler of a tool reads
ReadsArgs(name, args) ==
    LET h == HandlerShape(handleToolCall(name).handler)
        reads == CASE h.upstream \in {"room", "contexts"}
                      \/ name = "test_room_parameter" -> {"room_name", "category"}
                   [] h.upstream = "search" -> {"query"}
                   [] h.upstream = "page" -> {"page_name"}
                   [] OTHER -> {}
    IN  /\ \A f \in {"room_name", "category", "query", "page_name"} \ reads :
              args[f] = Undefined
        /\ args.sample_size # NoSampleSize => name = "get_active_metrics_summary"
        /\ args.category # Undefined => name = "test_category_metrics_activity"

ToolInit ==
    /\ toolName \in ToolNameValues
    /\ toolArgs \in {a \in ArgValues : ReadsArgs(toolName, a)}
    /\ toolToken \in BOOLEAN
    /\ handlerRun = <<>>
    /\ toolRequests = <<>>
    /\ toolStage = NoStage
    /\ toolResult = ToolPending
    /\ tpc = "start"
    /\ serverResult = ToolPending

\* the step is taken: its requests are sent, and the call awaits or ends
ToolStep(step) ==
    /\ toolResult' = step.outcome
    /\ toolRequests' = toolRequests \o step.sent
    /\ toolStage' = step.stage
    /\ tpc' = IF step.outcome.status = "pending" THEN "upstream" ELSE "done"

\* n requests to the target
Requests(n, target) == [k \in 1..n |-> target]

\* getAllWikiPages has been called or its request has settled: with the
\* list returned the handler goes on; else the request of a tree is awaited
WikiStep(handler, args) ==
    IF wpc' = "done" THEN AfterPages(handler, args, wikiResult'.value)
    ELSE Awaiting(Requests(wikiNetCalls' - wikiNetCalls, "github"), TreeStage)

\* handleToolCall(name, args) up to the first await of the handler: an
\* unknown name throws the unknown-tool error, a known one runs the handler
\* of the case of its service's switch. The report calls getNetDataAlarms
\* and sends its five requests to the provider API at once; the handlers of
\* the wiki, but getWikiPage, call getAllWikiPages first.
ToolCall ==
    /\ tpc = "start"
    /\ LET route == handleToolCall(toolName)
           h == HandlerShape(route.handler)
           check == ArgsCheck(route.handler, toolArgs)
       IN  IF route.service = "none"
           THEN /\ ToolStep(Threw(UnknownToolError(toolName)))
                /\ handlerRun' = <<>>
                /\ UNCHANGED <<alarmVars, reportVars, wikiVars>>
           ELSE IF route.handler = "default"
           THEN /\ ToolStep(Threw(UnknownServiceToolError(ServiceLabel(route.service),
                                                          toolName)))
                /\ handlerRun' = <<>>
                /\ UNCHANGED <<alarmVars, reportVars, wikiVars>>
           ELSE IF check.stops
           THEN /\ ToolStep(check.step)
                /\ handlerRun' = <<route.handler>>
                /\ UNCHANGED <<alarmVars, reportVars, wikiVars>>
           ELSE IF h.upstream = "report"
           THEN /\ AlarmStart
                /\ ReportStart(IF apc' = "done" THEN Resolved(alarmResult'.value)
                               ELSE Pending)
                /\ ToolStep(Awaiting(Requests(cloudCalls' - cloudCalls, "cloud")
                                     \o Requests(Len(Endpoints), "akash"),
                                     ReportStage))
                /\ handlerRun' = <<route.handler>>
                /\ UNCHANGED wikiVars
           ELSE IF h.upstream \in {"search", "rpc", "list"}
           THEN /\ WikiRequest
                /\ ToolStep(WikiStep(route.handler, toolArgs))
                /\ handlerRun' = <<route.handler>>
                /\ UNCHANGED <<alarmVars, reportVars>>
           ELSE IF h.upstream = "page"
           THEN /\ ToolStep(Awaiting(<<"raw">>, RequestStage("page", <<>>)))
                /\ handlerRun' = <<route.handler>>
                /\ UNCHANGED <<alarmVars, reportVars, wikiVars>>
           ELSE /\ ToolStep(HandlerEntry(route.handler, toolArgs, toolToken))
                /\ handlerRun' = CallChain(route.handler)
                /\ UNCHANGED <<alarmVars, reportVars, wikiVars>>
    /\ UNCHANGED <<toolName, toolArgs, toolToken, serverResult>>

\* what the handler awaits happens: its request is answered, a probe is
\* answered, or its timer fires; the handler goes on to its next await or
\* returns
ToolSettle ==
    /\ tpc = "upstream"
    /\ LET handler == Head(handlerRun)
       IN  CASE toolStage.name = "request" /\ toolStage.what # "page" ->
                  \E r \in RequestReplies(toolStage.what) :
                     ToolStep(RequestReply(handler, toolArgs, toolToken, toolStage, r))
             [] toolStage.name = "probe" ->
                  \E p \in DOMAIN toolStage.replies : \E r \in ToolAgentReplies :
                     /\ toolStage.replies[p].kind = "none"
                     /\ ToolStep(ProbeReply(handler, toolArgs, toolStage, p, r))
             [] toolStage.name = "timer" ->
                  ToolStep(TimerFired(handler, toolArgs, toolStage))
             [] toolStage.name = "pages" ->
                  \E r \in PageReplies : ToolStep(PageReply(toolArgs, toolStage, r))
             [] OTHER -> FALSE
    /\ UNCHANGED <<toolName, toolArgs, toolToken, handlerRun, serverResult>>
    /\ UNCHANGED <<alarmVars, reportVars, wikiVars>>

\* getWikiPage, the request of its page is answered: without content
\* getAllWikiPages is called in the same step
ToolPageSettle ==
    /\ tpc = "upstream"
    /\ toolStage.name = "request"
    /\ toolStage.what = "page"
    /\ \E r \in PageReplies :
          LET w == WikiPageReply(toolArgs, r)
          IN  IF w.pages
              THEN /\ WikiRequest
                   /\ ToolStep(WikiStep("getWikiPage", toolArgs))
              ELSE /\ ToolStep(w.step)
                   /\ UNCHANGED wikiVars
    /\ UNCHANGED <<toolName, toolArgs, toolToken, handlerRun, serverResult>>
    /\ UNCHANGED <<alarmVars, reportVars>>

\* the request of a tree of the wiki is answered
ToolTreeSettle ==
    /\ tpc = "upstream"
    /\ toolStage.name = "tree"
    /\ WikiSettle(ToolTreeReplies)
    /\ ToolStep(WikiStep(Head(handlerRun), toolArgs))
    /\ UNCHANGED <<toolName, toolArgs, toolToken, handlerRun, serverResult>>
    /\ UNCHANGED <<alarmVars, reportVars>>

\* The report: a request of getNetDataAlarms is answered. Its next requests
\* are sent in the same step; when it returns, its promise resolves, and
\* with it the Promise.all when the five other promises have resolved. The
\* call of getNetDataAlarms goes on after a rejection of the Promise.all has
\* made the handler return.
ToolAlarmSettle ==
    /\ toolStage.name = "report"
    /\ \/ AlarmsSettle(ToolAlarmsReplies)
       \/ RoomsSettle(ToolRoomsReplies)
       \/ DrillRoom(ToolNodesReplies)
       \/ DrillNode(AgentAlarmReplies)
    /\ toolRequests' = toolRequests \o Requests(cloudCalls' - cloudCalls, "cloud")
                       \o Requests(agentCalls' - agentCalls, "agent")
    /\ IF rpc = "fetching" /\ apc' = "done"
       THEN ReportAlarmsResolve(alarmResult'.value)
       ELSE UNCHANGED reportVars
    /\ toolResult' = IF tpc = "upstream" THEN repResult' ELSE toolResult
    /\ tpc' = IF tpc = "upstream" /\ rpc' = "done" THEN "done" ELSE tpc
    /\ UNCHANGED <<toolName, toolArgs, toolToken, handlerRun, toolStage, serverResult>>
    /\ UNCHANGED wikiVars

\* The report: a request of the provider API is answered.
ToolFetchSettle ==
    /\ tpc = "upstream"
    /\ toolStage.name = "report"
    /\ ReportFetchSettle(ToolAkashReplies)
    /\ toolResult' = repResult'
    /\ tpc' = IF rpc' = "done" THEN "done" ELSE tpc
    /\ UNCHANGED <<toolName, toolArgs, toolToken, handlerRun, toolRequests, toolStage,
                   serverResult>>
    /\ UNCHANGED <<alarmVars, wikiVars>>

----------------------------------------------------------------------------
(* getActiveMetricsSummary: one call, from the parsed contexts *)

\* the lists of up to MaxSummaryLen contexts, and one of a category with more
\* contexts than a batch of testMetricsInBatches holds
SummaryLists ==
    UNION {[1..n -> SummaryIds] : n \in 0..MaxSummaryLen}
    \cup {[k \in 1..(DefaultBatchSize + 1) |->
              <<"n", "e", "t", ".", "e", "t", "h", "0">>]}

\* the call after JSON.parse has given allContexts
SummaryInit ==
    /\ allContexts \in SummaryLists
    /\ sampleArg \in SampleArgs
    /\ sumIdx = 1
    /\ categoryResults = <<>>
    /\ totalActive = 0
    /\ totalTested = 0
    /\ sumProbes = <<>>
    /\ sumRequests = 0
    /\ sumStage = NoStage
    /\ sumResult = ToolPending
    /\ spc = "loop"

\* const { room_name, sample_size = 10 } = args || {}, for a registered room
SummaryArgs ==
    [Args(Str("all-nodes"), Undefined, Undefined, Undefined)
        EXCEPT !.sample_size = sampleArg]

\* The handler has run to its next await or to its return. While it awaits,
\* sumIdx is the category of the round, and categoryResults and the totals
\* are what the rounds have written; handed tells that the step began a
\* round, whose sample then went to testMetricsInBatches.
SummaryTake(step, handed) ==
    LET pending == step.outcome.status = "pending"
        probe == IF step.stage.name = "timer" THEN step.stage.probe ELSE step.stage
    IN  /\ sumStage' = step.stage
        /\ sumResult' = step.outcome
        /\ sumRequests' = sumRequests + Len(step.sent)
        /\ spc' = IF ~pending THEN "done"
                  ELSE IF step.stage.name = "timer" THEN "timer" ELSE "probes"
        /\ IF pending
           THEN /\ sumIdx' = probe.sum.idx
                /\ categoryResults' = probe.sum.entries
                /\ totalActive' = probe.sum.totalActive
                /\ totalTested' = probe.sum.totalTested
                /\ sumProbes' =
                      IF handed
                      THEN Append(sumProbes,
                                  [category |-> CategoryNames[probe.sum.idx],
                                   sample   |-> probe.ctxs])
                      ELSE sumProbes
           ELSE /\ sumIdx' = Len(CategoryNames) + 1
                /\ UNCHANGED <<categoryResults, totalActive, totalTested, sumProbes>>
        /\ UNCHANGED <<allContexts, sampleArg>>

\* The loop is entered: the rounds of the categories without a context pass
\* without an await; at the first category that has one the sample is
\* sliced and the requests of its first batch are sent, and the handler
\* awaits them. Without such a category the report is returned.
SummaryStart ==
    /\ spc = "loop"
    /\ SummaryTake(SummaryLoop(SummaryArgs, [NoSum EXCEPT !.all = allContexts], 1),
                   TRUE)

\* A probe of the batch is answered. With the last answer of the last batch
\* testMetricsInBatches returns: the entry of the category is written, the
\* totals are added to, and the timer of the rate limit is awaited.
SummaryProbeSettle ==
    /\ spc = "probes"
    /\ \E p \in DOMAIN sumStage.replies : \E r \in SummaryReplies :
          /\ sumStage.replies[p].kind = "none"
          /\ SummaryTake(ProbeReply("getActiveMetricsSummary", SummaryArgs,
                                    sumStage, p, r), FALSE)

\* A timer fires. After the pause between two batches the requests of the
\* next batch are sent. After the delay of the rate limit the loop goes on
\* with the next category, to the probes of the next category that has a
\* context or to the return of the report.
SummaryTimer ==
    /\ spc = "timer"
    /\ SummaryTake(TimerFired("getActiveMetricsSummary", SummaryArgs, sumStage),
                   sumStage.what = "delay")

----------------------------------------------------------------------------
(* Specifications: one call of each component *)

\* the components that are not called
ProbeIdle ==
    /\ contexts = <<>> /\ batchSize = 1 /\ i = 0 /\ batch = <<>> /\ batchPos = <<>>
    /\ inflight = {} /\ outcome = <<>> /\ reply = <<>> /\ issued = <<>>
    /\ verdict = <<>> /\ results = InitResults(<<>>) /\ pauses = 0 /\ batches = 0
    /\ iter = 0 /\ pc = "idle"
FilterIdle ==
    /\ fcContexts = <<>> /\ fcCategory = "" /\ fcResult = [status |-> "idle"]
AlarmIdle ==
    /\ apiToken = FALSE /\ alarmsFetch = NoFetch /\ roomsFetch = NoFetch
    /\ roomAlarms = <<>> /\ roomsWithAlarms = <<>> /\ roomQueue = <<>>
    /\ curRoom = NoRoom /\ nodeQueue = <<>> /\ criticalAlerts = <<>>
    /\ skipped = <<>> /\ drillLog = <<>> /\ cloudCalls = 0 /\ agentCalls = 0
    /\ alarmResult = AlarmPending /\ apc = "idle"
ToolIdle ==
    /\ toolName = "" /\ toolArgs = MissingArgs /\ toolToken = FALSE
    /\ handlerRun = <<>> /\ toolRequests = <<>> /\ toolStage = [name |-> "none"]
    /\ toolResult = ToolPending
    /\ tpc = "idle" /\ serverResult = ToolPending
ReportIdle ==
    /\ repAlarms = NoFetch /\ repFetch = [e \in EndpointSet |-> NoFetch]
    /\ repResult = ToolPending /\ rpc = "idle"
SummaryIdle ==
    /\ allContexts = <<>> /\ sampleArg = NoSampleSize /\ sumIdx = 1
    /\ categoryResults = <<>> /\ totalActive = 0 /\ totalTested = 0
    /\ sumProbes = <<>> /\ sumRequests = 0 /\ sumStage = NoStage
    /\ sumResult = ToolPending /\ spc = "idle"
WikiIdle ==
    /\ ghToken = FALSE /\ wikiBranch = "master" /\ wikiLog = <<>>
    /\ wikiNetCalls = 0 /\ wikiResult = WikiPending /\ wpc = "idle"

\* one call of testMetricsInBatches
Init == ProbeInit /\ FilterIdle /\ AlarmIdle /\ ToolIdle /\ ReportIdle /\ SummaryIdle /\ WikiIdle
Next ==
    \/ StartBatch /\ UNCHANGED <<filterVars, alarmVars, toolVars, reportVars, summaryVars, wikiVars>>
    \/ (\E p \in inflight : Settle(p)) /\ UNCHANGED <<filterVars, alarmVars, toolVars, reportVars, summaryVars, wikiVars>>
    \/ BatchSettled /\ UNCHANGED <<filterVars, alarmVars, toolVars, reportVars, summaryVars, wikiVars>>
    \/ PauseDone /\ UNCHANGED <<filterVars, alarmVars, toolVars, reportVars, summaryVars, wikiVars>>
    \/ Return /\ UNCHANGED <<filterVars, alarmVars, toolVars, reportVars, summaryVars, wikiVars>>
Spec == Init /\ [][Next]_vars

\* one call of filterContextsByCategory
FilterSpecInit == ProbeIdle /\ FilterInit /\ AlarmIdle /\ ToolIdle /\ ReportIdle /\ SummaryIdle /\ WikiIdle
FilterNext == FilterCall /\ UNCHANGED <<probeVars, alarmVars, toolVars, reportVars, summaryVars, wikiVars>>
SpecFilter == FilterSpecInit /\ [][FilterNext]_vars

\* one call of getNetDataAlarms
AlarmSpecInit == ProbeIdle /\ FilterIdle /\ AlarmInit /\ ToolIdle /\ ReportIdle /\ SummaryIdle /\ WikiIdle
AlarmNext ==
    \/ AlarmStart /\ UNCHANGED <<probeVars, filterVars, toolVars, reportVars, summaryVars, wikiVars>>
    \/ AlarmsSettle(AlarmsReplies) /\ UNCHANGED <<probeVars, filterVars, toolVars, reportVars, summaryVars, wikiVars>>
    \/ RoomsSettle(RoomsReplies) /\ UNCHANGED <<probeVars, filterVars, toolVars, reportVars, summaryVars, wikiVars>>
    \/ DrillRoom(NodesReplies) /\ UNCHANGED <<probeVars, filterVars, toolVars, reportVars, summaryVars, wikiVars>>
    \/ DrillNode(AgentAlarmReplies) /\ UNCHANGED <<probeVars, filterVars, toolVars, reportVars, summaryVars, wikiVars>>
SpecAlarms == AlarmSpecInit /\ [][AlarmNext]_vars

\* one call-tool request: handleToolCall, the handler with the functions it
\* calls, and the reply
ToolSpecInit ==
    /\ ProbeIdle /\ FilterIdle /\ SummaryIdle
    /\ ToolInit
    /\ AlarmInit /\ apiToken = toolToken
    /\ ReportInit
    /\ WikiInit /\ (ghToken => toolName \in {GitHubToolNames[k] : k \in 1..Len(GitHubToolNames)})
ToolNext ==
    \/ ToolCall /\ UNCHANGED <<probeVars, filterVars, summaryVars>>
    \/ ToolSettle /\ UNCHANGED <<probeVars, filterVars, summaryVars>>
    \/ ToolPageSettle /\ UNCHANGED <<probeVars, filterVars, summaryVars>>
    \/ ToolTreeSettle /\ UNCHANGED <<probeVars, filterVars, summaryVars>>
    \/ ToolAlarmSettle /\ UNCHANGED <<probeVars, filterVars, summaryVars>>
    \/ ToolFetchSettle /\ UNCHANGED <<probeVars, filterVars, summaryVars>>
    \/ CallToolReply /\ UNCHANGED <<probeVars, filterVars, alarmVars, reportVars, summaryVars, wikiVars>>
SpecTools == ToolSpecInit /\ [][ToolNext]_vars

\* one call of getAkashAllIssuesReport
ReportSpecInit == ProbeIdle /\ FilterIdle /\ AlarmIdle /\ ToolIdle /\ ReportInit /\ SummaryIdle /\ WikiIdle
ReportNext ==
    \/ ReportStart(Pending) /\ UNCHANGED <<probeVars, filterVars, alarmVars, toolVars, summaryVars, wikiVars>>
    \/ ReportAlarmsSettle /\ UNCHANGED <<probeVars, filterVars, alarmVars, toolVars, summaryVars, wikiVars>>
    \/ ReportFetchSettle(AkashReplies) /\ UNCHANGED <<probeVars, filterVars, alarmVars, toolVars, summaryVars, wikiVars>>
SpecReport == ReportSpecInit /\ [][ReportNext]_vars

\* one call of getActiveMetricsSummary
SummarySpecInit ==
    ProbeIdle /\ FilterIdle /\ AlarmIdle /\ ToolIdle /\ ReportIdle /\ SummaryInit /\ WikiIdle
SummaryNext ==
    \/ SummaryStart /\ UNCHANGED <<probeVars, filterVars, alarmVars, toolVars, reportVars, wikiVars>>
    \/ SummaryProbeSettle /\ UNCHANGED <<probeVars, filterVars, alarmVars, toolVars, reportVars, wikiVars>>
    \/ SummaryTimer /\ UNCHANGED <<probeVars, filterVars, alarmVars, toolVars, reportVars, wikiVars>>
SpecSummary == SummarySpecInit /\ [][SummaryNext]_vars

\* one call of getAllWikiPages
WikiSpecInit ==
    ProbeIdle /\ FilterIdle /\ AlarmIdle /\ ToolIdle /\ ReportIdle /\ SummaryIdle
    /\ WikiInit
WikiNext ==
    \/ WikiRequest /\ UNCHANGED <<probeVars, filterVars, alarmVars, toolVars, reportVars, summaryVars>>
    \/ WikiSettle(GitHubReplies) /\ UNCHANGED <<probeVars, filterVars, alarmVars, toolVars, reportVars, summaryVars>>
SpecWiki == WikiSpecInit /\ [][WikiNext]_vars

----------------------------------------------------------------------------
(* Claims about testMetricsInBatches and queryAgentMetric (Spec) *)

N == Len(contexts)
Positions == 1..N
\* a batch has been sliced and not yet left
InBatch == pc \in {"await", "pause"}
\* ceil(a / b) for b >= 1
CeilDiv(a, b) == (a + b - 1) \div b
\* the results pushed to a list, as the positions classified to it, in the
\* order of the input
ValuesOf(list) ==
    LET RECURSIVE Collect(_)
        Collect(p) ==
            IF p > N THEN <<>>
            ELSE (IF verdict[p] = list THEN <<outcome[p].value>> ELSE <<>>)
                 \o Collect(p + 1)
    IN  Collect(1)

\* C1: with batchSize >= 1 the batches are the consecutive slices of
\* batchSize identifiers (the last one possibly shorter), no identifier is
\* probed twice, the call goes on until it returns, and it returns with every
\* identifier probed once and summary.tested = summary.total = the length of
\* the input.
C1_BatchesPartitionInput ==
    batchSize >= 1 =>
        /\ \A p \in Positions : issued[p] <= 1
        /\ InBatch =>
              /\ i % batchSize = 0
              /\ batchPos = [k \in 1..Min(batchSize, N - i) |-> i + k]
              /\ batch = SubSeq(contexts, i + 1, Min(i + batchSize, N))
              /\ (Len(batch) # batchSize => i + Len(batch) = N)
              /\ batches = (i \div batchSize) + 1
        /\ (pc # "done" => ENABLED Next)
        /\ pc = "done" =>
              /\ \A p \in Positions : issued[p] = 1
              /\ results.summary.tested = N
              /\ results.summary.total = N
              /\ batches = CeilDiv(N, batchSize)

\* a call with 3 identifiers and batchSize 2 has returned: a full batch and
\* a shorter last one
C1_Witness == pc = "done" /\ N = 3 /\ batchSize = 2 /\ batches = 2

\* C2 (as claimed): with batchSize <= 0 and a non-empty list, the one batch
\* is the whole list, and the call returns with summary.tested = the length
\* of the input.
C2_NonPositiveIsOneBatch ==
    (batchSize <= 0 /\ N > 0) =>
        /\ InBatch => batch = contexts
        /\ batches <= 1
        /\ pc = "done" => results.summary.tested = N

\* C3 (as claimed): at every moment with requests in flight there are at
\* most batchSize of them, and no request of a later batch is issued before
\* every request of the batches before it has settled.
RequestsInOrder ==
    /\ inflight \subseteq Range(batchPos)
    /\ \A p \in Positions :
          (issued[p] > 0 /\ p \notin Range(batchPos)) => outcome[p].settled
C3_InFlightAtMostBatchSize ==
    /\ inflight # {} => Cardinality(inflight) <= batchSize
    /\ RequestsInOrder

\* C3 (amended): with batchSize >= 1, at most batchSize requests are in
\* flight at every moment; and for every batchSize, no request of a later
\* batch is issued before every request of the batches before it has settled.
C3_InFlightBoundedForPositive ==
    /\ batchSize >= 1 => Cardinality(inflight) <= batchSize
    /\ RequestsInOrder

\* the second batch of a call with batchSize 1 is in flight: as many requests
\* as batchSize, and the request of the first batch has settled
C3_Witness ==
    /\ pc = "await" /\ batchSize = 1 /\ N = 3 /\ batches = 2
    /\ inflight = {2}
    /\ outcome[1].settled

\* C4: with batchSize >= 1 a pause follows every batch but the last: while a
\* batch is awaited there is one pause per earlier batch, a pause starts only
\* when the batch has settled and another batch follows, and the call returns
\* after ceil(n / batchSize) - 1 pauses (none for n = 0).
C4_PauseBetweenBatchesOnly ==
    batchSize >= 1 =>
        /\ pc = "await" => pauses = batches - 1
        /\ pc = "pause" =>
              /\ pauses = batches
              /\ inflight = {}
              /\ i + batchSize < N
        /\ pc = "loop" => pauses = (IF i < N THEN batches ELSE Max(batches - 1, 0))
        /\ pc = "done" =>
              pauses = (IF N > 0 THEN CeilDiv(N, batchSize) - 1 ELSE 0)

\* 3 identifiers with batchSize 1: 3 batches and 2 pauses
C4_Witness == pc = "done" /\ N = 3 /\ batchSize = 1 /\ batches = 3 /\ pauses = 2

\* C5: queryAgentMetric never raises: a rejected request gives a result with
\* the error set, active false and no data points. So the call never ends by
\* an exception, every identifier of a batch is classified when the batch has
\* settled, whatever failed in it, and the later batches are still probed.
C5_ProbeNeverRaises ==
    /\ pc # "thrown"
    /\ \A p \in Positions :
          outcome[p].settled =>
              /\ ~outcome[p].raised
              /\ reply[p].kind = "reject" =>
                    /\ outcome[p].value.error = reply[p].message
                    /\ Truthy(outcome[p].value.error)
                    /\ outcome[p].value.active = JsFalse
                    /\ outcome[p].value.dataPoints = 0
    /\ pc \in {"pause", "loop", "done"} =>
          \A p \in Positions : issued[p] > 0 => verdict[p] # "none"
    /\ (pc = "done" /\ batchSize >= 1) =>
          \A p \in Positions : issued[p] = 1 /\ verdict[p] # "none"

\* the first of three identifiers failed in a batch with the second, whose
\* answer had an empty string for data, and the third, of the later batch,
\* was classified as active
C5_Witness ==
    /\ pc = "done" /\ N = 3 /\ batchSize = 2
    /\ reply[1].kind = "reject"
    /\ reply[2].dataKind = "empty" /\ verdict[2] = "inactive"
    /\ verdict[3] = "active"

\* C6: a result with an error goes to errors, else one with no data points
\* goes to inactive, else it goes to active; a probe whose request was
\* rejected is in errors; a result without an error is active exactly when
\* it has data points, whatever the field data of the answer held; and each
\* list holds the results classified to it.
C6_Classification ==
    /\ \A p \in Positions :
          verdict[p] # "none" =>
              LET v == outcome[p].value
              IN  /\ v.error # Null => verdict[p] = "errors"
                  /\ (v.error = Null /\ v.dataPoints = 0) => verdict[p] = "inactive"
                  /\ (v.error = Null /\ v.dataPoints > 0) => verdict[p] = "active"
                  /\ reply[p].kind = "reject" => verdict[p] = "errors"
                  /\ v.error = Null => (Truthy(v.active) <=> v.dataPoints > 0)
    /\ pc \in {"pause", "loop", "done"} =>
          /\ results.errors = ValuesOf("errors")
          /\ results.inactive = ValuesOf("inactive")
          /\ results.active = ValuesOf("active")

\* a call returned with a result in each list: a rejected request, an answer
\* whose field data is 0, and an answer with data points
C6_Witness ==
    /\ pc = "done" /\ N = 3
    /\ verdict[1] = "errors" /\ reply[1].kind = "reject"
    /\ verdict[2] = "inactive" /\ reply[2].dataKind = "zero"
    /\ verdict[3] = "active" /\ outcome[3].value.dataPoints > 0

\* C7: with an empty list the loop is never entered: no batch, no request
\* and no pause, and the lists are empty and the summary all zero.
C7_EmptyList ==
    N = 0 =>
        /\ batches = 0
        /\ pauses = 0
        /\ inflight = {}
        /\ pc \in {"loop", "done"}
        /\ results = [active |-> <<>>, inactive |-> <<>>, errors |-> <<>>,
                      summary |-> [total |-> 0, tested |-> 0, activeCount |-> 0,
                                   inactiveCount |-> 0, errorCount |-> 0]]

\* a call with an empty list has returned
C7_Witness == N = 0 /\ pc = "done" /\ batchSize = 2

----------------------------------------------------------------------------
(* Claims about filterContextsByCategory (SpecFilter) *)

FcDone == fcResult.status \in {"returned", "threw"}
Registered(category) == \E k \in 1..Len(CategoryNames) : CategoryNames[k] = category
\* the identifier begins with one of the prefixes, whatever their order
BeginsWithOneOf(context, prefixes) ==
    \E k \in 1..Len(prefixes) :
        /\ Len(prefixes[k]) <= Len(context)
        /\ \A j \in 1..Len(prefixes[k]) : context[j] = prefixes[k][j]
Reverse(seq) == [k \in 1..Len(seq) |-> seq[Len(seq) + 1 - k]]

\* C8: for a registered category the call returns the identifiers of the
\* input that begin with at least one prefix of the category, all of them and
\* no other, in the order of the input with duplicates kept; and the prefixes
\* taken in the opposite order give the same list.
C8_FilterKeepsExactlyMatches ==
    (FcDone /\ Registered(fcCategory)) =>
        /\ fcResult.status = "returned"
        /\ fcResult.value =
              SelectSeq(fcContexts,
                        LAMBDA c : BeginsWithOneOf(c, METRIC_CATEGORIES[fcCategory]))
        /\ fcResult.value =
              FilterByPrefixes(fcContexts, Reverse(METRIC_CATEGORIES[fcCategory]))

\* of two identifiers filtered by network the first was dropped and the
\* second kept, for a prefix that is not the first of the category
C8_Witness ==
    /\ FcDone /\ fcCategory = "network" /\ Len(fcContexts) = 2
    /\ fcResult.status = "returned"
    /\ fcResult.value = <<fcContexts[2]>>
    /\ fcContexts[1] # fcContexts[2]
    /\ ~StartsWith(fcContexts[2], METRIC_CATEGORIES.network[1])

\* C9 (as claimed): for every category name that is no registered key, the
\* call fails with the unknown-category error whose message names the category
\* and lists all registered names, and returns no list.
C9_UnregisteredCategoryFails ==
    (FcDone /\ ~Registered(fcCategory)) =>
        /\ fcResult.status = "threw"
        /\ fcResult.name = "Error"
        /\ fcResult.message.text = "Unknown category"
        /\ fcResult.message.category = fcCategory
        /\ fcResult.message.available = CategoryNames

----------------------------------------------------------------------------
(* Claims about getNetDataAlarms (SpecAlarms) *)

ZeroTotals == [warnings |-> 0, critical |-> 0, unreachable |-> 0,
               totalRooms |-> 0, roomsWithIssues |-> 0]

\* C10: getNetDataAlarms never raises, and as soon as one of the two primary
\* requests has failed it has returned the summary with all totals 0, empty
\* roomsWithAlarms, criticalAlarmDetails and allRooms, and the message of the
\* failure as its error.
C10_PrimaryFailureGivesErrorSummary ==
    /\ alarmResult.status # "threw"
    /\ (alarmsFetch.state = "rejected" \/ roomsFetch.state = "rejected") =>
          /\ alarmResult.status = "returned"
          /\ alarmResult.value.hasError
          /\ alarmResult.value.error # <<>>
          /\ alarmResult.value.error \in
                {f.message : f \in {x \in {alarmsFetch, roomsFetch} :
                                      x.state = "rejected"}}
          /\ alarmResult.value.totals = ZeroTotals
          /\ alarmResult.value.roomsWithAlarms = <<>>
          /\ alarmResult.value.criticalAlarmDetails = <<>>
          /\ alarmResult.value.allRooms = <<>>

\* the room list failed after the alarm counters had arrived with an entry
\* that has criticals
C10_Witness ==
    /\ roomsFetch.state = "rejected"
    /\ alarmsFetch.state = "resolved"
    /\ alarmsFetch.body.results # <<>>
    /\ alarmsFetch.body.results[1].critical > 0
    /\ alarmResult.status = "returned"

\* the call has returned the summary of the try block
AlarmSucceeded ==
    apc = "done" /\ alarmResult.status = "returned" /\ ~alarmResult.value.hasError
Summary == alarmResult.value
RoomLog == SelectSeq(drillLog, LAMBDA e : e.kind = "room")
NodeLog == SelectSeq(drillLog, LAMBDA e : e.kind = "node")

\* the nodes the listings of the log ask to query: of every listed room, in
\* order, the nodes with a critical counter above 0
RECURSIVE NodesToQuery(_)
NodesToQuery(log) ==
    IF log = <<>> THEN <<>>
    ELSE (IF Head(log).kind = "room" /\ Head(log).ok
          THEN LET l == SelectSeq(Head(log).items,
                                  LAMBDA n : n.hasCounters /\ n.critical > 0)
               IN  [k \in 1..Len(l) |-> <<Head(log).room.roomID, l[k].name>>]
          ELSE <<>>)
         \o NodesToQuery(Tail(log))
NodesQueried == [k \in 1..Len(NodeLog) |-> <<NodeLog[k].room.roomID, NodeLog[k].node.name>>]

\* the alarm is a critical one whatever the case of its status
CriticalIgnoringCase(alarm) == ToUpperCase(alarm.status) = StatusCRITICAL

\* the summary has a detail for the alarm of the node
Detailed(node, alarm) ==
    \E k \in 1..Len(Summary.criticalAlarmDetails) :
        LET d == Summary.criticalAlarmDetails[k]
        IN  /\ d.host = node.name
            /\ d.status = alarm.status
            /\ d.alertName \in {alarm.name, Str(alarm.key)}

\* C11: when the drill-down of getNetDataAlarms has skipped a room or a node,
\* the call still returns a summary without error, every room with criticals
\* has been asked for its nodes, every node with criticals of every listed
\* room has been queried, and every critical alarm of every node that answered
\* is among the critical-alarm details.
C11_PartialFailureTolerated ==
    (apc = "done" /\ skipped # <<>>) =>
        /\ alarmResult.status = "returned"
        /\ ~Summary.hasError
        /\ Summary.error = <<>>
        /\ Len(RoomLog) = Len(SelectSeq(roomsWithAlarms, LAMBDA d : d.critical > 0))
        /\ NodesQueried = NodesToQuery(drillLog)
        /\ \A k \in 1..Len(NodeLog) :
              NodeLog[k].ok =>
                 \A j \in 1..Len(NodeLog[k].items) :
                    CriticalIgnoringCase(NodeLog[k].items[j]) =>
                       Detailed(NodeLog[k].node, NodeLog[k].items[j])

\* a node did not answer, a node queried after it did, and its critical
\* alarm is in the summary
C11_Witness ==
    /\ AlarmSucceeded
    /\ \E k \in 1..Len(drillLog) : \E m \in 1..Len(drillLog) :
          /\ k < m
          /\ drillLog[k].kind = "node" /\ ~drillLog[k].ok
          /\ drillLog[m].kind = "node" /\ drillLog[m].ok
          /\ drillLog[m].items # <<>>
          /\ Detailed(drillLog[m].node, drillLog[m].items[1])

\* the room list has an entry for the room id
InRoomList(roomID) ==
    \E j \in 1..Len(roomsFetch.body.list) : roomsFetch.body.list[j].id = roomID

\* the room id resolves to the name: the last entry of the room list with
\* that id has the name
ResolvesTo(roomID, name) ==
    \E j \in 1..Len(roomsFetch.body.list) :
        /\ roomsFetch.body.list[j].id = roomID
        /\ roomsFetch.body.list[j].name = name
        /\ \A h \in (j + 1)..Len(roomsFetch.body.list) :
              roomsFetch.body.list[h].id # roomID

\* the alarm-counter entry has an alarm
HasAlarm(room) ==
    \/ (room.hasCounter /\ (room.warning > 0 \/ room.critical > 0))
    \/ room.unreachableCount > 0

\* C12: an alarm-counter entry whose roomID has no entry in the room list is
\* never in roomsWithAlarms, whatever its counters.
C12_UnidentifiedRoomExcluded ==
    AlarmSucceeded =>
        \A k \in 1..Len(Summary.allRooms) :
            ~InRoomList(Summary.allRooms[k].roomID) =>
                \A j \in 1..Len(Summary.roomsWithAlarms) :
                    Summary.roomsWithAlarms[j].roomID # Summary.allRooms[k].roomID

\* an entry with criticals whose room id is not in the room list (and names
\* an inherited property of the lookup) was fetched, and another entry was
\* retained
C12_Witness ==
    /\ AlarmSucceeded
    /\ Summary.roomsWithAlarms # <<>>
    /\ \E k \in 1..Len(Summary.allRooms) :
          /\ ~InRoomList(Summary.allRooms[k].roomID)
          /\ Summary.allRooms[k].roomID = "constructor"
          /\ Summary.allRooms[k].hasCounter
          /\ Summary.allRooms[k].critical > 0

\* C13: every entry of roomsWithAlarms is of a room named "All nodes" and has
\* a warning, critical or unreachable counter above 0, and the entries are
\* as many as the fetched entries with an alarm that resolve to "All nodes":
\* an entry that resolves to another name is discarded.
C13_OnlyAllNodesRetained ==
    AlarmSucceeded =>
        /\ \A j \in 1..Len(Summary.roomsWithAlarms) :
              LET d == Summary.roomsWithAlarms[j]
              IN  /\ d.roomName = AllNodes
                  /\ ResolvesTo(d.roomID, AllNodes)
                  /\ (d.warnings > 0 \/ d.critical > 0 \/ d.unreachable > 0)
        /\ Len(Summary.roomsWithAlarms) =
              Cardinality({k \in 1..Len(Summary.allRooms) :
                              /\ HasAlarm(Summary.allRooms[k])
                              /\ ResolvesTo(Summary.allRooms[k].roomID, AllNodes)})

\* an entry with an alarm of a room with another name was fetched and
\* discarded, and an entry of "All nodes" was retained
C13_Witness ==
    /\ AlarmSucceeded
    /\ Len(Summary.roomsWithAlarms) = 1
    /\ \E k \in 1..Len(Summary.allRooms) :
          /\ HasAlarm(Summary.allRooms[k])
          /\ ResolvesTo(Summary.allRooms[k].roomID, Str("room-a"))

\* the sum of a counter over the retained entries of the summary
RetainedSum(field) == SumField(Summary.roomsWithAlarms, field)

\* C14 (as stated): every field of totals, totalRooms included, is computed
\* over the retained entries: the sums are sums over roomsWithAlarms and both
\* room counts are the number of retained entries.
C14_AllTotalsOverRetained ==
    AlarmSucceeded =>
        /\ Summary.totals.warnings = RetainedSum("warnings")
        /\ Summary.totals.critical = RetainedSum("critical")
        /\ Summary.totals.unreachable = RetainedSum("unreachable")
        /\ Summary.totals.roomsWithIssues = Len(Summary.roomsWithAlarms)
        /\ Summary.totals.totalRooms = Len(Summary.roomsWithAlarms)

\* C14 (amended): warnings, critical and unreachable are sums over
\* roomsWithAlarms and roomsWithIssues is the number of retained entries;
\* totalRooms is the number of entries of the raw alarm-counter fetch.
C14_SumsOverRetainedRoomsOverRaw ==
    AlarmSucceeded =>
        /\ Summary.totals.warnings = RetainedSum("warnings")
        /\ Summary.totals.critical = RetainedSum("critical")
        /\ Summary.totals.unreachable = RetainedSum("unreachable")
        /\ Summary.totals.roomsWithIssues = Len(Summary.roomsWithAlarms)
        /\ Summary.totals.totalRooms = Len(Summary.allRooms)
        /\ Summary.allRooms = alarmsFetch.body.results

\* two entries were fetched, one was retained, and the discarded one had
\* counters that the totals leave out
C14_Witness ==
    /\ AlarmSucceeded
    /\ Len(Summary.allRooms) = 2
    /\ Len(Summary.roomsWithAlarms) = 1
    /\ \E k \in 1..2 : /\ HasAlarm(Summary.allRooms[k])
                       /\ ~ResolvesTo(Summary.allRooms[k].roomID, AllNodes)
    /\ Summary.totals.totalRooms = 2

\* the number of critical alarms, whatever the case, of the nodes of the log
\* that answered
RECURSIVE CriticalCount(_)
CriticalCount(log) ==
    IF log = <<>> THEN 0
    ELSE (IF Head(log).kind = "node" /\ Head(log).ok
          THEN Len(SelectSeq(Head(log).items, CriticalIgnoringCase))
          ELSE 0)
         + CriticalCount(Tail(log))

\* C15: the drill-down asks for the nodes of exactly the retained rooms with
\* critical > 0 (and sends nothing when there is none), queries only nodes
\* whose own critical counter is above 0, and criticalAlarmDetails holds
\* exactly the alarms, of the nodes that answered, whose status is CRITICAL
\* whatever the case.
C15_DrillDownOnlyCriticals ==
    /\ LET criticals == SelectSeq(roomsWithAlarms, LAMBDA d : d.critical > 0)
       IN  /\ Len(RoomLog) <= Len(criticals)
           /\ \A k \in 1..Len(RoomLog) : RoomLog[k].room = criticals[k]
    /\ \A k \in 1..Len(NodeLog) :
          /\ NodeLog[k].node.hasCounters
          /\ NodeLog[k].node.critical > 0
          /\ NodeLog[k].room.critical > 0
          /\ NodeLog[k].room.roomName = AllNodes
    /\ apc = "await_nodes" =>
          curRoom.critical > 0 /\ curRoom.roomName = AllNodes
    /\ apc = "await_agent" =>
          Head(nodeQueue).hasCounters /\ Head(nodeQueue).critical > 0
    /\ cloudCalls \in {0, 2 + Len(RoomLog) + IF apc = "await_nodes" THEN 1 ELSE 0}
    /\ agentCalls = Len(NodeLog) + IF apc = "await_agent" THEN 1 ELSE 0
    /\ AlarmSucceeded =>
          /\ Len(RoomLog) = Len(SelectSeq(roomsWithAlarms, LAMBDA d : d.critical > 0))
          /\ NodesQueried = NodesToQuery(drillLog)
          /\ Len(Summary.criticalAlarmDetails) = CriticalCount(drillLog)
          /\ \A j \in 1..Len(Summary.criticalAlarmDetails) :
                LET d == Summary.criticalAlarmDetails[j]
                IN  /\ ToUpperCase(d.status) = StatusCRITICAL
                    /\ \E k \in 1..Len(NodeLog) :
                          /\ NodeLog[k].ok
                          /\ NodeLog[k].node.name = d.host
                          /\ \E a \in 1..Len(NodeLog[k].items) :
                                /\ CriticalIgnoringCase(NodeLog[k].items[a])
                                /\ NodeLog[k].items[a].status = d.status
                                /\ d.alertName \in {NodeLog[k].items[a].name,
                                                    Str(NodeLog[k].items[a].key)}

\* a listed node without criticals was not queried, and the alarm of status
\* "critical" of a node that answered is a detail while its alarm without
\* status is not
C15_Witness ==
    /\ AlarmSucceeded
    /\ \E k \in 1..Len(RoomLog) :
          /\ RoomLog[k].ok
          /\ \E j \in 1..Len(RoomLog[k].items) : RoomLog[k].items[j].critical = 0
    /\ Len(NodeLog) = 1
    /\ NodeLog[1].ok
    /\ Len(NodeLog[1].items) = 2
    /\ NodeLog[1].items[1].status = StatusCritical
    /\ Len(Summary.criticalAlarmDetails) = 1
    /\ Summary.criticalAlarmDetails[1].status = StatusCritical

----------------------------------------------------------------------------
(* Claims about the tool router and the handlers (SpecTools) *)

ToolSet(list) == {list[k] : k \in 1..Len(list)}
RegisteredTool(name) ==
    name \in ToolSet(NetDataToolNames) \cup ToolSet(AkashToolNames)
             \cup ToolSet(GitHubToolNames)
RoomTool == toolName \in {"get_room_contexts", "get_room_nodes"}
RoomNameArg == GuardedField(toolArgs, "room_name")
ToolText == toolResult.value.content[1].text

\* C16: for get_room_contexts and get_room_nodes, a room_name that is not a
\* key of the room registry sends no request, and the call returns the text
\* that says "not found" and lists every registered room name.
C16_UnregisteredRoomNotFound ==
    (RoomTool /\ Truthy(RoomNameArg) /\ JsString(RoomNameArg) \notin ToolSet(RoomNames)) =>
        /\ toolRequests = <<>>
        /\ tpc # "upstream"
        /\ tpc = "done" =>
              /\ toolResult.status = "returned"
              /\ ToolText.template = NotFoundTemplate
              /\ ToolText.values = <<JsString(RoomNameArg), RoomNames>>

\* the response is { content: [{ type: "text", text }] }
IsEnvelope(response) ==
    /\ DOMAIN response = {"content"}
    /\ Len(response.content) = 1
    /\ DOMAIN response.content[1] = {"type", "text"}
    /\ response.content[1].type = "text"

\* C17: a call of a registered tool, whatever its arguments (absent ones
\* included) and whatever its requests are answered with, returns a text
\* envelope and never throws; only a call of an unregistered name throws.
C17_HandlersNeverThrow ==
    tpc = "done" =>
        IF RegisteredTool(toolName)
        THEN toolResult.status = "returned" /\ IsEnvelope(toolResult.value)
        ELSE toolResult.status = "threw"

\* the handler functions of each service, and the handler of each tool
NetDataHandlers ==
    {"getSpaceInfo", "getNodesInfo", "getInfrastructureOverview", "getRoomContexts",
     "getRoomNodes", "testRoomParameter", "debugApiCall", "testDirectRoomContexts",
     "testCategoryMetricsActivity", "testNetworkMetricsActivity",
     "getActiveMetricsSummary"}
AkashHandlers ==
    {"getAkashProvidersDown", "getAkashGpuIssues", "getAkashCpuIssues",
     "getAkashMemoryIssues", "getAkashPartialFailures", "getAkashAllIssuesReport"}
GitHubHandlers == {"searchWiki", "getWikiPage", "listRpcNodes", "getWikiPagesList"}
ToolHandlers ==
    { <<"get_space_info", "getSpaceInfo">>, <<"get_nodes_info", "getNodesInfo">>,
      <<"get_infrastructure_overview", "getInfrastructureOverview">>,
      <<"get_room_contexts", "getRoomContexts">>,
      <<"get_room_nodes", "getRoomNodes">>,
      <<"test_room_parameter", "testRoomParameter">>,
      <<"debug_api_call", "debugApiCall">>,
      <<"test_direct_room_contexts", "testDirectRoomContexts">>,
      <<"test_category_metrics_activity", "testCategoryMetricsActivity">>,
      <<"test_network_metrics_activity", "testNetworkMetricsActivity">>,
      <<"get_active_metrics_summary", "getActiveMetricsSummary">>,
      <<"get_akash_providers_down", "getAkashProvidersDown">>,
      <<"get_akash_gpu_issues", "getAkashGpuIssues">>,
      <<"get_akash_cpu_issues", "getAkashCpuIssues">>,
      <<"get_akash_memory_issues", "getAkashMemoryIssues">>,
      <<"get_akash_partial_failures", "getAkashPartialFailures">>,
      <<"get_akash_all_issues_report", "getAkashAllIssuesReport">>,
      <<"search_wiki", "searchWiki">>, <<"get_wiki_page", "getWikiPage">>,
      <<"list_rpc_nodes", "listRpcNodes">>,
      <<"get_wiki_pages_list", "getWikiPagesList">> }

\* the call has failed with the unknown-tool error that names the tool
UnknownToolFailure ==
    /\ toolResult.status = "threw"
    /\ toolResult.name = "McpError"
    /\ toolResult.code = "MethodNotFound"
    /\ toolResult.message = <<"Unknown tool: ", toolName>>

\* C18: handleToolCall fails with the unknown-tool error (MethodNotFound,
\* naming the tool) exactly for the names that no service registers; for
\* those no handler runs and nothing is sent; a registered name runs the
\* handler of its tool, which is a handler of the service that registers it.
C18_UnknownToolIffUnregistered ==
    tpc # "start" =>
        /\ UnknownToolFailure <=> ~RegisteredTool(toolName)
        /\ ~RegisteredTool(toolName) => handlerRun = <<>> /\ toolRequests = <<>>
        /\ RegisteredTool(toolName) =>
              /\ handlerRun # <<>>
              /\ <<toolName, Head(handlerRun)>> \in ToolHandlers
              /\ toolName \in ToolSet(NetDataToolNames) =>
                    Head(handlerRun) \in NetDataHandlers
              /\ toolName \in ToolSet(AkashToolNames) =>
                    Head(handlerRun) \in AkashHandlers
              /\ toolName \in ToolSet(GitHubToolNames) =>
                    Head(handlerRun) \in GitHubHandlers

\* a name that differs from a registered one by its case only has failed
\* with the unknown-tool error
C18_Witness ==
    /\ tpc = "done"
    /\ toolName = "Get_Space_Info"
    /\ UnknownToolFailure
    /\ handlerRun = <<>>

----------------------------------------------------------------------------
(* Claims about getAkashAllIssuesReport (SpecReport) *)

ReportReturned ==
    /\ rpc = "done"
    /\ repResult.status = "returned"
    /\ repResult.value.content[1].text.template = ReportTemplate
ReportValues == repResult.value.content[1].text.values

\* C19: when a request of the provider API has failed, the report has still
\* waited for every other request, and the section of every request that
\* was answered is rendered in the report.
C19_FanOutCollectsEveryOutcome ==
    (rpc = "done" /\ \E e \in EndpointSet : repFetch[e].state = "rejected") =>
        /\ \A e \in EndpointSet : repFetch[e].state # "pending"
        /\ \A e \in EndpointSet :
              repFetch[e].state = "resolved" =>
                 /\ ReportReturned
                 /\ ReportValues.sections[e] \in {"table", "empty"}

\* the issue counts of the bodies the provider API answered with
FetchedCount(e) == IF repFetch[e].body.has THEN repFetch[e].body.len ELSE 0

\* C20: in the summary of the report the infrastructure flag is healthy
\* exactly when warnings + critical + unreachable is 0, the provider-network
\* flag exactly when the five issue counts are all 0, and the combined flag
\* exactly when both other flags are healthy.
C20_HealthFlags ==
    ReportReturned =>
        LET totals == repAlarms.body.totals
            infraHealthy ==
                ReportValues.infrastructureHealth = "All Infrastructure Operational"
            providerHealthy ==
                ReportValues.providerNetworkHealth = "All Providers Operational"
            combinedHealthy == ReportValues.combinedStatus = "ALL SYSTEMS OPERATIONAL"
        IN  /\ infraHealthy <=>
                  (totals.warnings + totals.critical + totals.unreachable = 0)
            /\ ~infraHealthy =>
                  ReportValues.infrastructureHealth = "Infrastructure Issues Detected"
            /\ providerHealthy <=> (\A e \in EndpointSet : FetchedCount(e) = 0)
            /\ ~providerHealthy =>
                  ReportValues.providerNetworkHealth = "Provider Issues Detected"
            /\ combinedHealthy <=> (infraHealthy /\ providerHealthy)
            /\ ~combinedHealthy =>
                  ReportValues.combinedStatus = "ATTENTION REQUIRED - Issues Detected"

\* the infrastructure has no alarm, one provider is down, and the report
\* says so: infrastructure healthy, provider network and combined not
C20_Witness ==
    /\ ReportReturned
    /\ ~repAlarms.body.hasError
    /\ ReportValues.totalInfrastructureIssues = 0
    /\ FetchedCount("/providers/down") = 1
    /\ ReportValues.totalAkashIssues = 1
    /\ ReportValues.infrastructureHealth = "All Infrastructure Operational"
    /\ ReportValues.providerNetworkHealth = "Provider Issues Detected"
    /\ ReportValues.combinedStatus = "ATTENTION REQUIRED - Issues Detected"

\* the entries of the list a section of the provider API shows: none when
\* the field is absent or holds no array
ListedIssues(e) ==
    IF repFetch[e].body.has /\ repFetch[e].body.isArray
    THEN repFetch[e].body.len ELSE 0

\* a section shows its line of no issues, or a table of at least one row
WellFormedSection(section, rows, listed) ==
    /\ listed = 0 => (section = "empty" /\ rows = 0)
    /\ listed > 0 => (section = "table" /\ rows = listed)

\* C21 as stated: in a rendered report each of the six sections shows its
\* empty-state line when its list is empty or absent and a table of at
\* least one row otherwise.
C21_EmptyStateOrRows ==
    ReportReturned =>
        /\ WellFormedSection(ReportValues.alarms, ReportValues.alarmRows,
                             Len(repAlarms.body.roomsWithAlarms))
        /\ \A e \in EndpointSet :
              WellFormedSection(ReportValues.sections[e], ReportValues.rows[e],
                                ListedIssues(e))

\* C21: in a rendered report each of the five provider sections shows its
\* empty-state line when its list is empty or absent and a table of one row
\* per entry otherwise; the section of the infrastructure alerts does the
\* same when the alarm summary carries no error, and shows the line of the
\* error instead of the empty-state line when it does; no section shows a
\* table of zero rows.
C21_EmptyStateOrRowsUnlessAlarmError ==
    ReportReturned =>
        /\ repAlarms.body.hasError =>
              (ReportValues.alarms = "error" /\ ReportValues.alarmRows = 0)
        /\ ~repAlarms.body.hasError =>
              WellFormedSection(ReportValues.alarms, ReportValues.alarmRows,
                                Len(repAlarms.body.roomsWithAlarms))
        /\ \A e \in EndpointSet :
              WellFormedSection(ReportValues.sections[e], ReportValues.rows[e],
                                ListedIssues(e))
        /\ ReportValues.alarms = "table" => ReportValues.alarmRows >= 1
        /\ \A e \in EndpointSet :
              ReportValues.sections[e] = "table" => ReportValues.rows[e] >= 1

\* a report with a table of alerts, a table of GPU issues, and the
\* empty-state line of an empty list, of an absent list and of a GPU field
\* that holds no array
C21_Witness ==
    /\ ReportReturned
    /\ ReportValues.alarms = "table" /\ ReportValues.alarmRows = 1
    /\ ReportValues.sections["/issues/res/cpu"] = "table"
    /\ ReportValues.rows["/issues/res/cpu"] = 1
    /\ repFetch["/issues/res/memory"].body = ProviderBody(FALSE, TRUE, TRUE, 0)
    /\ ReportValues.sections["/issues/res/memory"] = "empty"
    /\ repFetch["/providers/down"].body = ProviderBody(FALSE, FALSE, FALSE, 0)
    /\ ReportValues.sections["/providers/down"] = "empty"
    /\ repFetch["/gpuissues"].body = ProviderBody(FALSE, TRUE, FALSE, 1)
    /\ ReportValues.sections["/gpuissues"] = "empty"

\* C28: a report built from an alarm summary that carries an error states
\* neither "All Infrastructure Operational" nor "ALL SYSTEMS OPERATIONAL".
C28_NoOperationalFlagOnAlarmError ==
    (ReportReturned /\ repAlarms.body.hasError) =>
        /\ ReportValues.infrastructureHealth # "All Infrastructure Operational"
        /\ ReportValues.combinedStatus # "ALL SYSTEMS OPERATIONAL"

----------------------------------------------------------------------------
(* Claims about the tools (SpecTools), continued *)

\* C22: when the API token of the cloud is not configured, no tool sends a
\* request to the cloud API.
C22_NoCloudRequestWithoutToken ==
    ~toolToken => "cloud" \notin Range(toolRequests)

\* the tools that get the contexts of a room by calling getRoomContexts and
\* re-parsing its text, called with the arguments they require
ContextsTool ==
    \/ /\ toolName = "test_category_metrics_activity"
       /\ Truthy(GuardedField(toolArgs, "category"))
    \/ toolName = "get_active_metrics_summary"

\* the text is the not-found message with the list of the registered rooms
NotFoundText(text) ==
    /\ text.template = NotFoundTemplate
    /\ text.values = <<JsString(RoomNameArg), RoomNames>>

\* C23: test_category_metrics_activity and get_active_metrics_summary, called
\* with a room_name that is no key of the room registry, send no request
\* and no probe, and return a text that carries the not-found message with
\* the list of the available rooms.
C23_DerivedToolsRoomNotFound ==
    (ContextsTool /\ Truthy(RoomNameArg) /\ JsString(RoomNameArg) \notin ToolSet(RoomNames)
     /\ JsString(RoomNameArg) \notin ObjectPrototypeKeys) =>
        /\ toolRequests = <<>>
        /\ tpc # "upstream"
        /\ tpc = "done" =>
              /\ toolResult.status = "returned"
              /\ NotFoundText(ToolText)

----------------------------------------------------------------------------
(* Claims about getActiveMetricsSummary (SpecSummary) *)

\* the contexts of the list that begin with a prefix of the category
Matching(categoryName) ==
    SelectSeq(allContexts,
              LAMBDA c : \E k \in 1..Len(METRIC_CATEGORIES[categoryName]) :
                            StartsWith(c, METRIC_CATEGORIES[categoryName][k]))
\* the categories the loop has gone through
CategoriesDone == {CategoryNames[k] : k \in 1..(sumIdx - 1)}
ProbedCategories == {sumProbes[k].category : k \in 1..Len(sumProbes)}
BreakdownCategories ==
    {categoryResults[k].category : k \in 1..Len(categoryResults)}

\* C24: for every category the summary probes at most sample_size contexts
\* (none for a sample_size below one) and at most the contexts that match
\* the category, whatever number sample_size is; a category without a
\* matching context is not probed and has no entry in the breakdown.
C24_SampleSizeBoundsProbes ==
    /\ \A k \in 1..Len(sumProbes) :
          /\ Len(sumProbes[k].sample) <= Max(SampleSize(sampleArg), 0)
          /\ Len(sumProbes[k].sample) <= Len(Matching(sumProbes[k].category))
    /\ \A k \in 1..Len(categoryResults) :
          categoryResults[k].tested <= Max(SampleSize(sampleArg), 0)
    /\ \A c \in CategoriesDone :
          Matching(c) = <<>> => (c \notin ProbedCategories
                                 /\ c \notin BreakdownCategories)

\* the number of entries of the list that are the context
Occurrences(list, c) == Cardinality({k \in 1..Len(list) : list[k] = c})
RECURSIVE ProbeCount(_, _)
ProbeCount(probes, c) ==
    IF probes = <<>> THEN 0
    ELSE Occurrences(Head(probes).sample, c) + ProbeCount(Tail(probes), c)

SummaryReturned == spc = "done" /\ sumResult.status = "returned"
SummaryValues == sumResult.value.content[1].text.values

\* C30: in the report of the summary "Total tested" is at most "Total
\* contexts available" and "Total active" at most "Total tested", and no
\* context is probed more often than the list of contexts holds it.
C30_TestedWithinAvailable ==
    /\ \A c \in SummaryIds : ProbeCount(sumProbes, c) <= Occurrences(allContexts, c)
    /\ SummaryReturned =>
          /\ SummaryValues.totalTested <= SummaryValues.totalAvailable
          /\ SummaryValues.totalActive <= SummaryValues.totalTested

----------------------------------------------------------------------------
(* Claims about the call-tool request handler (SpecTools) *)

\* C25: the call-tool request handler returns the envelope of the handler
\* as it is; a McpError thrown by the dispatch is thrown again as it is;
\* any other error is thrown as a McpError of code InternalError whose
\* message names the tool and carries the message of the error; a thrown
\* error never becomes a returned envelope.
C25_RequestHandlerWrapsErrors ==
    tpc = "replied" =>
        /\ toolResult.status = "returned" => serverResult = toolResult
        /\ toolResult.status = "threw" =>
              /\ serverResult.status = "threw"
              /\ serverResult.name = "McpError"
              /\ toolResult.name = "McpError" => serverResult = toolResult
              /\ toolResult.name # "McpError" =>
                    /\ serverResult.code = "InternalError"
                    /\ serverResult.message =
                          <<"Error executing tool ", toolName, ": ",
                            toolResult.message>>

\* the TypeError of search_wiki without arguments has left the request
\* handler as an InternalError
C25_Witness ==
    /\ tpc = "replied"
    /\ toolName = "search_wiki"
    /\ toolResult.status = "threw"
    /\ toolResult.name = "TypeError"
    /\ serverResult.status = "threw"
    /\ serverResult.code = "InternalError"

\* the switch of a service
ServiceSwitch(service, name) ==
    CASE service = "netdata" -> NetDataSwitch(name)
      [] service = "akash" -> AkashSwitch(name)
      [] OTHER -> GitHubSwitch(name)
ServiceTools(service) ==
    CASE service = "netdata" -> NetDataToolNames
      [] service = "akash" -> AkashToolNames
      [] OTHER -> GitHubToolNames

\* C29: every tool name a service lists has a case in the switch of that
\* service, so a name the top-level dispatcher accepts never ends in the
\* "Unknown NetData/Akash/GitHub tool" error of a switch; and every name of
\* getAllTools() is accepted by the top-level dispatcher.
C29_ListedToolsHaveCases ==
    /\ \A service \in {"netdata", "akash", "github"} :
          \A n \in ToolSet(ServiceTools(service)) :
             ServiceSwitch(service, n) # "default"
    /\ \A n \in ToolSet(getAllTools) :
          /\ handleToolCall(n).service # "none"
          /\ handleToolCall(n).handler # "default"
    /\ (tpc # "start" /\ handleToolCall(toolName).service # "none") =>
          /\ handlerRun # <<>>
          /\ toolResult #
                UnknownServiceToolError(ServiceLabel(handleToolCall(toolName).service),
                                        toolName)
    /\ (tpc # "start" /\ toolName \in ToolSet(getAllTools)) =>
          toolResult # UnknownToolError(toolName)

\* the last tool of the NetData list has gone through the dispatcher and
\* the switch of its service into its handler, and the request is answered
C29_Witness ==
    /\ tpc = "replied"
    /\ toolName = "get_active_metrics_summary"
    /\ handleToolCall(toolName) = Route("netdata", "getActiveMetricsSummary")
    /\ Head(handlerRun) = "getActiveMetricsSummary"
    /\ serverResult.status = "returned"

----------------------------------------------------------------------------
(* Claims about getAllWikiPages (SpecWiki) *)

\* the listing of the master tree did not work: no token, a request error,
\* or the branch was not found (status 404)
MasterDidNotWork ==
    /\ wikiLog # <<>>
    /\ wikiLog[1].branch = "master"
    /\ wikiLog[1].reply.kind # "resolve"
MainTried == Len(wikiLog) >= 2 /\ wikiLog[2].branch = "main"

\* C26: getAllWikiPages never raises, and whenever the listing of the
\* master tree did not work (request error, or branch not found with status
\* 404) it has tried the tree of main before it returns.
C26_MainTriedWhenMasterFails ==
    wpc = "done" =>
        /\ wikiResult.status = "returned"
        /\ MasterDidNotWork => MainTried

----------------------------------------------------------------------------
(* Claims about the results of testMetricsInBatches (Spec), continued *)

\* the positions whose result has been classified
Classified == {p \in Positions : verdict[p] # "none"}

\* C27: at every moment of a call of testMetricsInBatches (between two of
\* its awaits), every classified result is in exactly one of the lists
\* active, inactive and errors; each list holds its results in the order of
\* the input; activeCount, inactiveCount and errorCount are the lengths of
\* the lists; and their sum is tested, which is at most total.
C27_ResultListsPartitionTested ==
    pc # "idle" =>
        /\ results.active = ValuesOf("active")
        /\ results.inactive = ValuesOf("inactive")
        /\ results.errors = ValuesOf("errors")
        /\ Len(results.active) + Len(results.inactive) + Len(results.errors)
              = Cardinality(Classified)
        /\ results.summary.activeCount = Len(results.active)
        /\ results.summary.inactiveCount = Len(results.inactive)
        /\ results.summary.errorCount = Len(results.errors)
        /\ results.summary.activeCount + results.summary.inactiveCount
              + results.summary.errorCount = results.summary.tested
        /\ results.summary.tested <= results.summary.total
        /\ results.summary.total = N

\* between the two batches of a call with 3 identifiers and batchSize 2,
\* the first batch has put one result into errors and one into active; and
\* the third is still to be probed
C27_Witness ==
    /\ pc = "pause"
    /\ N = 3 /\ batchSize = 2
    /\ Len(results.errors) = 1 /\ Len(results.active) = 1
    /\ results.summary.tested = 2
    /\ verdict[3] = "none"

====
